---- MODULE Spec2Model ----
(***************************************************************************)
(* ScreenFrame: the canonical viewport compositor (imageUtils.ts), the     *)
(* upload normalizer (App.processFile) and the export tray with its        *)
(* capture fan-out (App.addToTray), as state machines.                     *)
(*                                                                         *)
(* Numbers the code computes in floating point are exact rationals here,   *)
(* a pair <<numerator, denominator>> in lowest terms with a positive       *)
(* denominator.                                                            *)
(***************************************************************************)
EXTENDS Integers, Sequences, FiniteSets, TLC

VARIABLES
    state,            \* App: the ProcessingState of useState (image, fitMode, ..., tray, isPro)
    modal,            \* App: the ModalState, with what its onConfirm closure captured
    isAddingToTray,   \* App: the adding flag
    isExporting,      \* App: the platform whose ZIP is being built, "" for null
    capture,          \* App: the addToTray call in flight (its closure and its renders)
    savedProjects,    \* App: the projects held by the project database
    objectURLs,       \* browser: the object URLs created by awaited renders and by
                      \* project loads, and not yet revoked
    nextId,           \* App: number of addToTray calls that got past their guards + 1
    gestures,         \* App: number of user gestures the behaviour may still make
    lastCapture,      \* App: how the latest addToTray call ended
    rArgs,            \* compositor: the arguments of one processImage call
    rPhase,           \* compositor: where that call is
    rCanvas,          \* compositor: width and height of the call's output canvas
    rGeom,            \* compositor: what img.onload computed and drew
    rSettled,         \* compositor: the settlements of the call's promise, in order
    rPreview,         \* editor preview: what DeviceMockup laid out for the same props
    nFile,            \* normalizer: the decoded upload and the selected device
    nPhase,           \* normalizer: where processFile is
    nDetected,        \* normalizer: the rectangle detectBorders returned
    nRect,            \* normalizer: normalizationRect as handed to createCanonicalAsset
    nInset,           \* normalizer: insetFactor (in percent), 0 when no inset is applied
    nImage,           \* normalizer: state.image after the upload
    nCtx,             \* normalizer: whether each getContext('2d') call returned a context
    sAmount,          \* sharpening: adjustments.sharpness of the render
    sComposite,       \* sharpening: the canvas pixels after ctx.drawImage
    sCanvas,          \* sharpening: the canvas pixels now
    sPhase,           \* sharpening: where the render is around its sharpening pass
    dImage,           \* border detector: the decoded image of one detectBorders call
    dPhase,           \* border detector: where that call is
    dCrop,            \* border detector: the CropArea returned, as binary64 numbers
    scanImage,        \* scan loops: the decoded image of one detectBorders call
    scanCtx,          \* scan loops: whether getContext('2d') returns a context
    scanPhase,        \* scan loops: where the call is
    scanTop,          \* scan loops: the local variable top
    scanBottom,       \* scan loops: the local variable bottom
    scanReads,        \* scan loops: the <<x, y>> that getPixel was called with
    scanBodies,       \* scan loops: how often each while body has run
    scanCrop,         \* scan loops: the CropArea returned
    localCrop,        \* crop editor: the crop being edited, as binary64 numbers
    isDragging,       \* crop editor: the handle held and the crop at mouse down
    cropApplied,      \* crop editor: the crops APPLY has handed to onCropChange
    cropMoves,        \* crop editor: number of drags the behaviour may still start
    visualScale,      \* crop editor: the memoised autoFitScale, a binary64 number
    cropOpen          \* crop editor: whether the editor is mounted

appVars    == <<state, modal, isAddingToTray, isExporting, capture, savedProjects, objectURLs,
                 nextId, gestures, lastCapture>>
renderVars == <<rArgs, rPhase, rCanvas, rGeom, rSettled, rPreview>>
normVars   == <<nFile, nPhase, nDetected, nRect, nInset, nImage, nCtx>>
sharpVars  == <<sAmount, sComposite, sCanvas, sPhase>>
detectVars == <<dImage, dPhase, dCrop>>
scanVars   == <<scanImage, scanCtx, scanPhase, scanTop, scanBottom, scanReads, scanBodies,
                 scanCrop>>
cropVars   == <<localCrop, isDragging, cropApplied, cropMoves, visualScale, cropOpen>>
vars       == <<appVars, renderVars, normVars, sharpVars, detectVars, scanVars, cropVars>>

(***************************************************************************)
(* Exact arithmetic                                                        *)
(***************************************************************************)
Abs(n) == IF n < 0 THEN -n ELSE n

RECURSIVE GCD(_, _)
GCD(a, b) == IF b = 0 THEN a ELSE GCD(b, a % b)

\* n/d in lowest terms, d # 0
Rat(n, d) ==
    LET g == GCD(Abs(n), Abs(d))
        s == IF d < 0 THEN -1 ELSE 1
    IN  <<(s * n) \div g, (s * d) \div g>>

R(n) == <<n, 1>>
RAdd(p, q) == Rat(p[1] * q[2] + q[1] * p[2], p[2] * q[2])
RSub(p, q) == Rat(p[1] * q[2] - q[1] * p[2], p[2] * q[2])
RMul(p, q) ==
    LET a == Rat(p[1], q[2])
        b == Rat(q[1], p[2])
    IN  Rat(a[1] * b[1], a[2] * b[2])
RDiv(p, q) == RMul(p, Rat(q[2], q[1]))
RLt(p, q)  == p[1] * q[2] < q[1] * p[2]
RLe(p, q)  == p[1] * q[2] <= q[1] * p[2]
RFloor(p)  == p[1] \div p[2]
Pct(n)     == Rat(n, 100)

(***************************************************************************)
(* types.ts, constants.ts                                                  *)
(***************************************************************************)
Platforms   == {"APPLE", "ANDROID"}
FitModes    == {"FIT", "STRETCH", "AUTOFIT"}
ExportModes == {"RECTANGLE", "FRAME"}

\* Object.values(DEVICE_SPECS): the registry in insertion order
DeviceOrder ==
    <<"PHONE", "TABLET_7", "TABLET_10", "CHROMEBOOK", "IPHONE", "IPHONE_61", "IPAD">>

DeviceTypes == {DeviceOrder[i] : i \in 1..Len(DeviceOrder)}

DEVICE_SPECS ==
    [d \in DeviceTypes |->
        CASE d = "PHONE"      -> [id |-> d, width |-> 1080, height |-> 1920, platform |-> "ANDROID", isTablet |-> FALSE]
          [] d = "TABLET_7"   -> [id |-> d, width |-> 1200, height |-> 1920, platform |-> "ANDROID", isTablet |-> TRUE]
          [] d = "TABLET_10"  -> [id |-> d, width |-> 1600, height |-> 2560, platform |-> "ANDROID", isTablet |-> TRUE]
          [] d = "CHROMEBOOK" -> [id |-> d, width |-> 1920, height |-> 1080, platform |-> "ANDROID", isTablet |-> FALSE]
          [] d = "IPHONE"     -> [id |-> d, width |-> 1290, height |-> 2796, platform |-> "APPLE", isTablet |-> FALSE]
          [] d = "IPHONE_61"  -> [id |-> d, width |-> 1179, height |-> 2556, platform |-> "APPLE", isTablet |-> FALSE]
          [] d = "IPAD"       -> [id |-> d, width |-> 2048, height |-> 2732, platform |-> "APPLE", isTablet |-> TRUE]]

DefaultFrameColor == "#1a1a1a"
FRAME_COLORS == {DefaultFrameColor, "#beb8af"}

NEUTRAL_BASELINE  == [brightness |-> 100, contrast |-> 100, saturation |-> 100, sharpness |-> 0]
AUTO_SHINE_PRESET == [brightness |-> 105, contrast |-> 110, saturation |-> 106, sharpness |-> 25]

\* a CropArea, in percent
Crop(x, y, w, h) == [x |-> x, y |-> y, width |-> w, height |-> h]
IdentityCrop == Crop(R(0), R(0), R(100), R(100))

\* a rectangle in pixels
Rect(x, y, w, h) == [x |-> x, y |-> y, w |-> w, h |-> h]

(***************************************************************************)
(* imageUtils.ts: processImage                                             *)
(***************************************************************************)
isApple(spec)   == spec.platform = "APPLE"
isAndroid(spec) == spec.platform = "ANDROID"

\* CanvasSize with the height taken from the width
CanvasSize_square(spec) == [width |-> spec.width, height |-> spec.width]

\* canvas.width = spec.width; canvas.height = spec.height
CanvasSize(spec) == [width |-> spec.width, height |-> spec.height]

\* a canvas element before its width and height are assigned
DefaultCanvas == [width |-> 300, height |-> 150]

\* the background fill of the whole canvas
Background(exportMode) == IF exportMode = "FRAME" THEN "gradient #0a0a0a-#000" ELSE "#050505"

\* framePadding, in percent of spec.width
FramePaddingPct(spec) == IF isAndroid(spec) /\ spec.isTablet THEN 10 ELSE 12

\* TargetRect with the frame padding added on top of the Apple breathing room
TargetRect_compounded(spec, fitMode, exportMode) ==
    LET W == R(spec.width)
        H == R(spec.height)
        room == IF isApple(spec) /\ fitMode = "FIT" THEN RMul(W, Pct(4)) ELSE R(0)
        pad  == IF exportMode = "FRAME"
                  THEN RAdd(room, RMul(W, Pct(IF isAndroid(spec) /\ spec.isTablet THEN 10 ELSE 12)))
                  ELSE room
    IN  Rect(pad, pad, RSub(W, RMul(pad, R(2))), RSub(H, RMul(pad, R(2))))

\* targetX, targetY, targetW, targetH
TargetRect(spec, fitMode, exportMode) ==
    LET W == R(spec.width)
        H == R(spec.height)
        appleBreathingRoom == RMul(W, Pct(4))
        fit == IF isApple(spec) /\ fitMode = "FIT"
                 THEN Rect(appleBreathingRoom, appleBreathingRoom,
                           RSub(W, RMul(appleBreathingRoom, R(2))),
                           RSub(H, RMul(appleBreathingRoom, R(2))))
                 ELSE Rect(R(0), R(0), W, H)
        framePadding == RMul(W, Pct(FramePaddingPct(spec)))
    IN  IF exportMode = "FRAME"
          THEN Rect(framePadding, framePadding,
                    RSub(W, RMul(framePadding, R(2))),
                    RSub(H, RMul(framePadding, R(2))))
          ELSE fit

\* the device body drawn in FRAME mode
Chassis(spec, exportMode, target, frameColor) ==
    IF exportMode # "FRAME" THEN [drawn |-> FALSE]
    ELSE LET bezelWidth == RMul(R(spec.width), Pct(4))
         IN  [drawn  |-> TRUE,
              body   |-> Rect(RSub(target.x, bezelWidth), RSub(target.y, bezelWidth),
                              RAdd(target.w, RMul(bezelWidth, R(2))),
                              RAdd(target.h, RMul(bezelWidth, R(2)))),
              radius |-> IF spec.isTablet THEN RMul(R(spec.width), Pct(4))
                                          ELSE RMul(R(spec.width), Pct(10)),
              color  |-> frameColor,
              tint   |-> IF isApple(spec) THEN "#ffffff22" ELSE "#00000011",
              cutout |-> IF ~spec.isTablet /\ spec.width < spec.height
                           THEN (IF isApple(spec) THEN "island" ELSE "camera")
                           ELSE "none"]

\* sx, sy, sw, sh: the crop resolved against the decoded master
SourceRect(cropArea, img) ==
    Rect(RMul(RDiv(cropArea.x, R(100)), R(img.width)),
         RMul(RDiv(cropArea.y, R(100)), R(img.height)),
         RMul(RDiv(cropArea.width, R(100)), R(img.width)),
         RMul(RDiv(cropArea.height, R(100)), R(img.height)))

\* DrawRect with the two FIT branches exchanged
DrawRect_fitSwapped(spec, fitMode, target, src) ==
    LET imgRatio    == RDiv(src.w, src.h)
        targetRatio == RDiv(target.w, target.h)
        byWidth  == LET drawH == RDiv(target.w, imgRatio)
                    IN  Rect(target.x, RAdd(target.y, RDiv(RSub(target.h, drawH), R(2))),
                             target.w, drawH)
        byHeight == LET drawW == RMul(target.h, imgRatio)
                    IN  Rect(RAdd(target.x, RDiv(RSub(target.w, drawW), R(2))), target.y,
                             drawW, target.h)
    IN  CASE fitMode = "FIT" ->
               IF RLt(targetRatio, imgRatio) THEN byHeight ELSE byWidth
          [] fitMode = "AUTOFIT" ->
               IF isAndroid(spec) /\ spec.isTablet /\ RLt(imgRatio, targetRatio) THEN byHeight
               ELSE IF RLt(targetRatio, imgRatio) THEN byHeight
               ELSE byWidth
          [] OTHER -> target

\* DrawRect without the height-locked branch of AUTOFIT
DrawRect_noHeightLock(spec, fitMode, target, src) ==
    LET imgRatio    == RDiv(src.w, src.h)
        targetRatio == RDiv(target.w, target.h)
        byWidth  == LET drawH == RDiv(target.w, imgRatio)
                    IN  Rect(target.x, RAdd(target.y, RDiv(RSub(target.h, drawH), R(2))),
                             target.w, drawH)
        byHeight == LET drawW == RMul(target.h, imgRatio)
                    IN  Rect(RAdd(target.x, RDiv(RSub(target.w, drawW), R(2))), target.y,
                             drawW, target.h)
    IN  CASE fitMode = "FIT" ->
               IF RLt(targetRatio, imgRatio) THEN byWidth ELSE byHeight
          [] fitMode = "AUTOFIT" ->
               IF RLt(targetRatio, imgRatio) THEN byHeight ELSE byWidth
          [] OTHER -> target

\* DrawRect with STRETCH laid out as FIT
DrawRect_stretchLetterboxed(spec, fitMode, target, src) ==
    LET imgRatio    == RDiv(src.w, src.h)
        targetRatio == RDiv(target.w, target.h)
        byWidth  == LET drawH == RDiv(target.w, imgRatio)
                    IN  Rect(target.x, RAdd(target.y, RDiv(RSub(target.h, drawH), R(2))),
                             target.w, drawH)
        byHeight == LET drawW == RMul(target.h, imgRatio)
                    IN  Rect(RAdd(target.x, RDiv(RSub(target.w, drawW), R(2))), target.y,
                             drawW, target.h)
    IN  CASE fitMode = "AUTOFIT" ->
               IF isAndroid(spec) /\ spec.isTablet /\ RLt(imgRatio, targetRatio) THEN byHeight
               ELSE IF RLt(targetRatio, imgRatio) THEN byHeight
               ELSE byWidth
          [] OTHER ->
               IF RLt(targetRatio, imgRatio) THEN byWidth ELSE byHeight

\* drawX, drawY, drawW, drawH
DrawRect(spec, fitMode, target, src) ==
    LET imgRatio    == RDiv(src.w, src.h)
        targetRatio == RDiv(target.w, target.h)
        byWidth  == LET drawH == RDiv(target.w, imgRatio)
                    IN  Rect(target.x, RAdd(target.y, RDiv(RSub(target.h, drawH), R(2))),
                             target.w, drawH)
        byHeight == LET drawW == RMul(target.h, imgRatio)
                    IN  Rect(RAdd(target.x, RDiv(RSub(target.w, drawW), R(2))), target.y,
                             drawW, target.h)
    IN  CASE fitMode = "FIT" ->
               IF RLt(targetRatio, imgRatio) THEN byWidth ELSE byHeight
          [] fitMode = "AUTOFIT" ->
               IF isAndroid(spec) /\ spec.isTablet /\ RLt(imgRatio, targetRatio) THEN byHeight
               ELSE IF RLt(targetRatio, imgRatio) THEN byHeight
               ELSE byWidth
          [] OTHER -> target

\* the rounded clip of the content, in percent of spec.width; 0: no clip
ClipRadiusPct(spec, exportMode) ==
    IF exportMode # "FRAME" THEN 0 ELSE IF spec.isTablet THEN 3 ELSE 8

\* ctx.filter
Filter(adjustments) ==
    <<"brightness", adjustments.brightness, "contrast", adjustments.contrast,
      "saturate", adjustments.saturation>>

\* img.onload: everything the handler computes and draws before canvas.toBlob
OnLoad(args) ==
    LET spec   == args.spec
        target == TargetRect(spec, args.fitMode, args.exportMode)
        src    == SourceRect(args.cropArea, args.image)
    IN  [canvas     |-> CanvasSize(spec),
         background |-> Background(args.exportMode),
         target     |-> target,
         chassis    |-> Chassis(spec, args.exportMode, target, args.frameColor),
         source     |-> src,
         draw       |-> DrawRect(spec, args.fitMode, target, src),
         clip       |-> ClipRadiusPct(spec, args.exportMode),
         filter     |-> Filter(args.adjustments),
         sharpen    |-> IF args.adjustments.sharpness > 0 THEN args.adjustments.sharpness ELSE 0]

\* new Image().src = imageSrc fires onload when the source decodes, else onerror:
\* a data URL decodes when it holds at least one pixel, an object URL while it
\* is not revoked (live: the object URLs not revoked)
Decodes(image, live) ==
    \/ image.kind = "canonical" /\ image.width > 0 /\ image.height > 0
    \/ image.kind = "url" /\ image.ref \in live

(***************************************************************************)
(* components/DeviceMockup.tsx: the editor preview                         *)
(***************************************************************************)
getObjectFit(fitMode) ==
    CASE fitMode = "AUTOFIT" -> "cover"
      [] fitMode = "FIT"     -> "contain"
      [] fitMode = "STRETCH" -> "fill"
      [] OTHER               -> "cover"

\* the container (previewW x previewH, border-box) and the content box inside
\* its padding, which holds the image
DeviceMockup(deviceType, exportMode, fitMode) ==
    LET spec == DEVICE_SPECS[deviceType]
        isLandscape == spec.width > spec.height
        previewW == IF isLandscape THEN R(320)
                    ELSE RMul(Rat(spec.width, spec.height), R(500))
        previewH == IF isLandscape THEN RMul(Rat(spec.height, spec.width), R(320))
                    ELSE R(500)
        paddingX == RMul(previewW, Pct(12))
        paddingY == RMul(previewH, Pct(12))
    IN  [previewW  |-> previewW,
         previewH  |-> previewH,
         viewport  |-> Rect(paddingX, paddingY,
                            RSub(previewW, RMul(paddingX, R(2))),
                            RSub(previewH, RMul(paddingY, R(2)))),
         scale     |-> IF spec.id = "IPAD" THEN Pct(92) ELSE R(1),
         objectFit |-> getObjectFit(fitMode)]

(***************************************************************************)
(* Bounds                                                                  *)
(***************************************************************************)
\* the tray has 8 slots in the source (Array(8).fill(null)); the model keeps
\* TraySlots of them
TraySlots   == 2
\* addToTray calls that get past their guards in one behaviour
MaxCaptures == 2
\* user gestures in one behaviour: editor changes, drags, exports, and the
\* clicks that open a modal or copy a tray item to the editor
MaxGestures == 2
\* user gestures in one behaviour of the tray's life cycle (SpecTray)
MaxTrayGestures == 4
\* user gestures in one behaviour of uploads and captures (SpecCapture)
MaxCaptureGestures == 1
\* drags in one behaviour of the crop editor (SpecCrop)
MaxDrags == 2
\* farthest the pointer travels from the mouse down, in pixels, along each axis
MaxDragPx == 1
\* projects the database holds
MaxProjects == 1
\* largest decoded upload, in pixels
MaxImgW     == 2
MaxImgH     == 3
\* largest canvas whose pixels are followed through the sharpening pass
MaxPxW      == 4
MaxPxH      == 3
\* tallest image handed to the border detector on its own, in rows
MaxRows     == 11

(***************************************************************************)
(* Values of the App state                                                 *)
(***************************************************************************)
\* state.image: null, '' (createCanonicalAsset without a context), a canonical
\* master (a data URL of width x height pixels) or the preview URL of a variant
NullImage  == [kind |-> "null",  width |-> 0, height |-> 0, ref |-> <<>>]
EmptyImage == [kind |-> "empty", width |-> 0, height |-> 0, ref |-> <<>>]
CanonicalImage(w, h) == [kind |-> "canonical", width |-> w, height |-> h, ref |-> <<>>]

\* a null tray slot
NullItem ==
    [id |-> 0, platform |-> "", exportMode |-> "", index |-> 0, frameColor |-> "",
     variants |-> <<>>]

IsNull(slot) == slot.id = 0

\* the modal is closed; an open modal carries what its onConfirm closure holds:
\* the handler (onConfirm), the id and itemIndex of removeFromTrayById, the
\* state.tray and state.isPro of the render that opened it
NoModal ==
    [isOpen |-> FALSE, type |-> "", onConfirm |-> "", itemId |-> 0, itemIndex |-> 0,
     tray |-> <<>>, isPro |-> FALSE]

NoCapture ==
    [id |-> 0, image |-> NullImage, fitMode |-> "", exportMode |-> "", adjustments |-> NEUTRAL_BASELINE,
     cropArea |-> IdentityCrop, frameColor |-> "", emptySlotIndex |-> 0,
     targetPlatform |-> "", calculatedIndex |-> 0, targetSpecs |-> <<>>, variants |-> <<>>]

InitialState ==
    [image |-> NullImage, fitMode |-> "FIT", exportMode |-> "RECTANGLE",
     selectedDevice |-> "IPHONE", frameColor |-> DefaultFrameColor,
     cropArea |-> IdentityCrop, adjustments |-> NEUTRAL_BASELINE,
     tray |-> [i \in 1..TraySlots |-> NullItem], isPro |-> FALSE]

\* the App after its first render, with a budget of user gestures
AppStart(budget) ==
    /\ state = InitialState
    /\ modal = NoModal
    /\ isAddingToTray = FALSE
    /\ isExporting = ""
    /\ capture = NoCapture
    /\ savedProjects = {}
    /\ objectURLs = {}
    /\ nextId = 1
    /\ gestures = budget
    /\ lastCapture = "none"

AppAtRest == AppStart(MaxGestures)

(***************************************************************************)
(* imageUtils.ts: detectBorders.  A decoded image is its width, its height *)
(* and its rows of <<r, g, b>> pixels.                                     *)
(***************************************************************************)
getPixel(img, x, y) == img.rows[y + 1][x + 1]

isSameColor(c1, c2) ==
    /\ Abs(c1[1] - c2[1]) < 5
    /\ Abs(c1[2] - c2[2]) < 5
    /\ Abs(c1[3] - c2[3]) < 5

\* the inner for loop: every pixel of row y matches the top-left pixel
rowUniform(img, y) ==
    \A x \in 0..(img.width - 1) : isSameColor(getPixel(img, x, y), getPixel(img, 0, 0))

\* ScanTop that never advances
ScanTop_stays(img, top, bottom) == top

\* while (top < bottom) { if (!rowUniform) break; top++; }
RECURSIVE ScanTop(_, _, _)
ScanTop(img, top, bottom) ==
    IF top < bottom /\ rowUniform(img, top) THEN ScanTop(img, top + 1, bottom) ELSE top

\* while (bottom > top) { if (!rowUniform) break; bottom--; }
RECURSIVE ScanBottom(_, _, _)
ScanBottom(img, top, bottom) ==
    IF bottom > top /\ rowUniform(img, bottom) THEN ScanBottom(img, top, bottom - 1) ELSE bottom

detectBorders(img, ctx) ==
    IF ~ctx THEN Crop(R(0), R(0), R(100), R(100))
    ELSE LET left   == 0
             right  == img.width - 1
             top    == ScanTop(img, 0, img.height - 1)
             bottom == ScanBottom(img, top, img.height - 1)
         IN  Crop(RMul(Rat(left, img.width), R(100)),
                  RMul(Rat(top, img.height), R(100)),
                  RMul(Rat(right - left + 1, img.width), R(100)),
                  RMul(Rat(bottom - top + 1, img.height), R(100)))

(***************************************************************************)
(* App.tsx: processFile and createCanonicalAsset                           *)
(***************************************************************************)
\* InsetFactorPct with "modal" requiring both dimensions below 95%
InsetFactorPct_both(rect) ==
    IF RLt(rect.width, R(95)) /\ RLt(rect.height, R(95)) THEN 8 ELSE 4

\* insetFactor, in percent
InsetFactorPct(rect) ==
    LET isModal == RLt(rect.width, R(95)) \/ RLt(rect.height, R(95))
    IN  IF isModal THEN 8 ELSE 4

\* NormalizationRect with the inset taken from the source image's size
NormalizationRect_ofSource(rect, targetSpec) ==
    IF targetSpec.platform = "APPLE"
      THEN LET inset == RMul(R(100), Pct(InsetFactorPct(rect)))
           IN  Crop(RAdd(rect.x, inset), RAdd(rect.y, inset),
                    RSub(rect.width, RMul(inset, R(2))),
                    RSub(rect.height, RMul(inset, R(2))))
      ELSE rect

\* normalizationRect once the platform policy is applied to the detected rectangle
NormalizationRect(rect, targetSpec) ==
    IF targetSpec.platform = "APPLE"
      THEN LET insetFactor == Pct(InsetFactorPct(rect))
               insetW == RMul(rect.width, insetFactor)
               insetH == RMul(rect.height, insetFactor)
           IN  Crop(RAdd(rect.x, insetW), RAdd(rect.y, insetH),
                    RSub(rect.width, RMul(insetW, R(2))),
                    RSub(rect.height, RMul(insetH, R(2))))
      ELSE rect

\* the data URL of a canvas of w x h pixels (canvas.width and canvas.height
\* keep the integer part of what they are assigned); '' without a context
createCanonicalAsset(img, rect, ctx) ==
    IF ~ctx THEN EmptyImage
    ELSE LET w == RMul(RDiv(rect.width, R(100)), R(img.width))
             h == RMul(RDiv(rect.height, R(100)), R(img.height))
         IN  CanonicalImage(RFloor(w), RFloor(h))

\* the state processFile's img.onload leaves behind
ProcessFileOnLoad(prev, img, device, ctxDetect, ctxAsset) ==
    LET detected == detectBorders(img, ctxDetect)
        normalizationRect == NormalizationRect(detected, DEVICE_SPECS[device])
        cleanAsset == createCanonicalAsset(img, normalizationRect, ctxAsset)
    IN  [prev EXCEPT !.image = cleanAsset,
                     !.cropArea = IdentityCrop,
                     !.adjustments = NEUTRAL_BASELINE]

NoGeom    == [drawn |-> FALSE]
NoPreview == [laidOut |-> FALSE]

RenderAtRest ==
    /\ rArgs = [spec |-> DEVICE_SPECS["IPHONE"], fitMode |-> "FIT", exportMode |-> "RECTANGLE",
                adjustments |-> NEUTRAL_BASELINE, cropArea |-> IdentityCrop,
                frameColor |-> DefaultFrameColor, image |-> NullImage]
    /\ rPhase = "idle"
    /\ rCanvas = DefaultCanvas
    /\ rGeom = NoGeom
    /\ rSettled = <<>>
    /\ rPreview = NoPreview

NormAtRest ==
    /\ nFile = [kind |-> "none", width |-> 0, height |-> 0, rows |-> <<>>, device |-> "IPHONE"]
    /\ nPhase = "idle"
    /\ nDetected = IdentityCrop
    /\ nRect = IdentityCrop
    /\ nInset = 0
    /\ nImage = NullImage
    /\ nCtx = [detect |-> TRUE, asset |-> TRUE]

\* the binary64 value 0: no significand bits
F64Zero == [e |-> 0, m |-> <<>>]

DetectAtRest ==
    /\ dImage = [width |-> 1, height |-> 1, rows |-> <<<<<<10, 10, 10>>>>>>]
    /\ dPhase = "idle"
    /\ dCrop = Crop(F64Zero, F64Zero, F64Zero, F64Zero)

ScanAtRest ==
    /\ scanImage = [width |-> 1, height |-> 1, rows |-> <<<<<<10, 10, 10>>>>>>]
    /\ scanCtx = TRUE
    /\ scanPhase = "idle"
    /\ scanTop = 0
    /\ scanBottom = 0
    /\ scanReads = {}
    /\ scanBodies = [top |-> 0, bottom |-> 0]
    /\ scanCrop = IdentityCrop

\* the crop editor is not mounted
CropAtRest ==
    /\ localCrop = Crop(F64Zero, F64Zero, F64Zero, F64Zero)
    /\ isDragging = [handle |-> "null", initialCrop |-> Crop(F64Zero, F64Zero, F64Zero, F64Zero)]
    /\ cropApplied = <<>>
    /\ cropMoves = 0
    /\ visualScale = F64Zero
    /\ cropOpen = FALSE

(***************************************************************************)
(* imageUtils.ts: applySharpness.  The canvas pixels are the flat RGBA     *)
(* array getImageData returns: 4 numbers in 0..255 per pixel, row by row.  *)
(***************************************************************************)
\* a store into a Uint8ClampedArray: clamped to 0..255 and rounded to the
\* nearest integer, a tie going to the even one
Uint8Clamp(p) ==
    IF RLe(p, R(0)) THEN 0
    ELSE IF RLe(R(255), p) THEN 255
    ELSE LET f    == RFloor(p)
             frac == RSub(p, R(f))
         IN  IF RLt(frac, Rat(1, 2)) THEN f
             ELSE IF RLt(Rat(1, 2), frac) THEN f + 1
             ELSE IF f % 2 = 0 THEN f ELSE f + 1

RECURSIVE RSum(_)
RSum(terms) == IF terms = <<>> THEN R(0) ELSE RAdd(terms[1], RSum(Tail(terms)))

\* applySharpness that writes back the array it read
applySharpness_copy(data, width, height, amount) == data

\* the array putImageData writes back to the canvas
applySharpness(data, width, height, amount) ==
    IF amount <= 0 THEN data
    ELSE LET a == Rat(amount, 300)
             kernel == <<R(0), RSub(R(0), a), R(0),
                         RSub(R(0), a), RAdd(R(1), RMul(R(4), a)), RSub(R(0), a),
                         R(0), RSub(R(0), a), R(0)>>
             sum(x, y, c) ==
                 RSum([k \in 1..9 |->
                         LET ky  == ((k - 1) \div 3) - 1
                             kx  == ((k - 1) % 3) - 1
                             idx == ((y + ky) * width + (x + kx)) * 4 + c
                         IN  RMul(R(data[idx + 1]), kernel[(ky + 1) * 3 + (kx + 1) + 1])])
         IN  [i \in 1..Len(data) |->
                LET c == (i - 1) % 4
                    x == ((i - 1) \div 4) % width
                    y == ((i - 1) \div 4) \div width
                IN  IF y >= 1 /\ y < height - 1 /\ x >= 1 /\ x < width - 1
                      THEN (IF c < 3 THEN Uint8Clamp(sum(x, y, c)) ELSE data[i])
                      ELSE 0]

\* rows of w opaque pixels: the flat background, a linear ramp, and a flat row
\* with one pixel standing out strongly or faintly
PxRows(w) ==
    {[x \in 1..w |-> <<4, 4, 4, 255>>],
     [x \in 1..w |-> <<100 + 12 * (x - 1), 40 + 20 * (x - 1), 8 * (x - 1), 255>>],
     [x \in 1..w |-> IF x = 2 THEN <<200, 200, 0, 255>> ELSE <<100, 100, 100, 255>>],
     [x \in 1..w |-> IF x = 2 THEN <<104, 100, 100, 255>> ELSE <<100, 100, 100, 255>>]}

\* ctx.getImageData(0, 0, width, height).data of a canvas given by its rows
ImageData(w, h, rows) ==
    [i \in 1..(w * h * 4) |->
        rows[(((i - 1) \div 4) \div w) + 1][(((i - 1) \div 4) % w) + 1][((i - 1) % 4) + 1]]

Composites ==
    UNION {{[width |-> w, height |-> h, data |-> ImageData(w, h, rows)] :
               rows \in [1..h -> PxRows(w)]} :
             <<w, h>> \in (3..MaxPxW) \X (3..MaxPxH)}

\* the values of the sharpness slider that are followed
Sharpnesses == {0, 1, AUTO_SHINE_PRESET.sharpness, 100}

SharpAtRest ==
    /\ sAmount = 0
    /\ sComposite = [width |-> 0, height |-> 0, data |-> <<>>]
    /\ sCanvas = <<>>
    /\ sPhase = "idle"

\* the canvas right after ctx.drawImage
SharpenInit ==
    /\ AppAtRest
    /\ RenderAtRest
    /\ NormAtRest
    /\ DetectAtRest
    /\ ScanAtRest
    /\ CropAtRest
    /\ sAmount \in Sharpnesses
    /\ sComposite \in Composites
    /\ sCanvas = sComposite.data
    /\ sPhase = "composited"

\* if (adjustments.sharpness > 0) applySharpness(ctx, canvas.width, canvas.height, ...)
ApplySharpness ==
    /\ sPhase = "composited"
    /\ sAmount > 0
    /\ sCanvas' = applySharpness(sCanvas, sComposite.width, sComposite.height, sAmount)
    /\ sPhase' = "sharpened"
    /\ UNCHANGED <<sAmount, sComposite, appVars, renderVars, normVars, detectVars, scanVars, cropVars>>

\* adjustments.sharpness is 0: the pass is not run
SkipSharpness ==
    /\ sPhase = "composited"
    /\ ~(sAmount > 0)
    /\ sPhase' = "skipped"
    /\ UNCHANGED <<sAmount, sComposite, sCanvas, appVars, renderVars, normVars, detectVars, scanVars, cropVars>>

SharpenNext ==
    \/ ApplySharpness
    \/ SkipSharpness

SpecSharpen == SharpenInit /\ [][SharpenNext]_vars

(***************************************************************************)
(* Properties of the sharpening pass (SpecSharpen)                         *)
(***************************************************************************)
\* the pixels of the canvas, as <<x, y>>
Pixels == (0..(sComposite.width - 1)) \X (0..(sComposite.height - 1))

OnRing(px) ==
    \/ px[1] = 0 \/ px[1] = sComposite.width - 1
    \/ px[2] = 0 \/ px[2] = sComposite.height - 1

\* channel c (0..3) of pixel px in a flat RGBA array
Channel(data, px, c) == data[(px[2] * sComposite.width + px[1]) * 4 + c + 1]

SamePixel(px) == \A c \in 0..3 : Channel(sCanvas, px, c) = Channel(sComposite.data, px, c)

\* C14: after the sharpening pass has run, every pixel of the outermost ring
\* of the canvas has the R, G, B and alpha values the composite had there.
C14_BorderRingUntouched ==
    sPhase = "sharpened" => \A px \in Pixels : OnRing(px) => SamePixel(px)

NonUniform == \E p, q \in Pixels : \E c \in 0..3 :
                 Channel(sComposite.data, p, c) # Channel(sComposite.data, q, c)

Laplacian(px, c) ==
    4 * Channel(sComposite.data, px, c)
      - Channel(sComposite.data, <<px[1], px[2] - 1>>, c)
      - Channel(sComposite.data, <<px[1], px[2] + 1>>, c)
      - Channel(sComposite.data, <<px[1] - 1, px[2]>>, c)
      - Channel(sComposite.data, <<px[1] + 1, px[2]>>, c)

SignificandBits == 53

Zeros(n) == [i \in 1..n |-> 0]

\* the bits of a natural number, most significant first
RECURSIVE BitsOf(_)
BitsOf(n) == IF n = 0 THEN <<>> ELSE Append(BitsOf(n \div 2), n % 2)

\* the bits plus one unit in the last place
RECURSIVE Increment(_)
Increment(bits) ==
    IF bits = <<>> THEN <<1>>
    ELSE IF bits[Len(bits)] = 0 THEN [bits EXCEPT ![Len(bits)] = 1]
    ELSE Append(Increment(SubSeq(bits, 1, Len(bits) - 1)), 0)

\* the binary64 value nearest to the number whose bits (starting with a 1 of
\* weight 2^e) are given, sticky telling that a non-zero rest follows them
RoundToDouble(bits, e, sticky) ==
    LET n == Len(bits)
    IN  IF n <= SignificandBits
          THEN [e |-> e, m |-> bits \o Zeros(SignificandBits - n)]
          ELSE LET kept  == SubSeq(bits, 1, SignificandBits)
                   guard == bits[SignificandBits + 1]
                   rest  == sticky \/ \E i \in (SignificandBits + 2)..n : bits[i] = 1
                   up    == guard = 1 /\ (rest \/ kept[SignificandBits] = 1)
                   inc   == Increment(kept)
               IN  IF ~up THEN [e |-> e, m |-> kept]
                   ELSE IF Len(inc) > SignificandBits
                          THEN [e |-> e + 1, m |-> SubSeq(inc, 1, SignificandBits)]
                          ELSE [e |-> e, m |-> inc]

\* an integer as a binary64 value (exact below 2^53)
F64FromInt(n) == IF n = 0 THEN F64Zero ELSE RoundToDouble(BitsOf(n), Len(BitsOf(n)) - 1, FALSE)

\* the smallest k with n * 2^k >= bound
RECURSIVE ShiftUp(_, _)
ShiftUp(n, bound) == IF n >= bound THEN 0 ELSE 1 + ShiftUp(2 * n, bound)

\* the largest k with n * 2^k <= bound
RECURSIVE ShiftDown(_, _)
ShiftDown(n, bound) == IF 2 * n > bound THEN 0 ELSE 1 + ShiftDown(2 * n, bound)

RECURSIVE Pow2(_)
Pow2(k) == IF k = 0 THEN 1 ELSE 2 * Pow2(k - 1)

\* count more quotient bits of r / den, and the remainder left
RECURSIVE LongDivision(_, _, _, _)
LongDivision(bits, r, den, count) ==
    IF count = 0 THEN [bits |-> bits, r |-> r]
    ELSE LET b == IF 2 * r >= den THEN 1 ELSE 0
         IN  LongDivision(Append(bits, b), 2 * r - b * den, den, count - 1)

\* a / b of two integers, b > 0
F64Div(a, b) ==
    IF a = 0 THEN F64Zero
    ELSE LET up   == ShiftUp(a, b)
             num  == a * Pow2(up)
             down == ShiftDown(b, num)
             den  == b * Pow2(down)
             q    == LongDivision(<<1>>, num - den, den, SignificandBits)
         IN  RoundToDouble(q.bits, down - up, q.r # 0)

\* the bits of (the first i bits as an integer) * n + carry, followed by low
RECURSIVE TimesInt(_, _, _, _, _)
TimesInt(bits, i, n, carry, low) ==
    IF i = 0 THEN BitsOf(carry) \o low
    ELSE TimesInt(bits, i - 1, n, (bits[i] * n + carry) \div 2,
                  <<(bits[i] * n + carry) % 2>> \o low)

\* x * n for a binary64 x and an integer n
F64Mul(x, n) ==
    IF x.m = <<>> \/ n = 0 THEN F64Zero
    ELSE LET p == TimesInt(x.m, Len(x.m), n, 0, <<>>)
         IN  RoundToDouble(p, x.e + Len(p) - Len(x.m), FALSE)

\* the bits of (the first i bits of a) + (the first i bits of b) + carry,
\* followed by low
RECURSIVE AddBits(_, _, _, _, _)
AddBits(a, b, i, carry, low) ==
    IF i = 0 THEN BitsOf(carry) \o low
    ELSE AddBits(a, b, i - 1, (a[i] + b[i] + carry) \div 2,
                 <<(a[i] + b[i] + carry) % 2>> \o low)

\* x + y for two binary64 values that are not negative
F64Add(x, y) ==
    IF x.m = <<>> THEN y
    ELSE IF y.m = <<>> THEN x
    ELSE LET hi == IF x.e >= y.e THEN x ELSE y
             lo == IF x.e >= y.e THEN y ELSE x
             d  == hi.e - lo.e
             a  == hi.m \o Zeros(d)
             b  == Zeros(d) \o lo.m
             sum == AddBits(a, b, Len(a), 0, <<>>)
         IN  RoundToDouble(sum, hi.e + Len(sum) - Len(a), FALSE)

\* x < y and x <= y for two binary64 values that are not negative
F64Lt(x, y) ==
    IF y.m = <<>> THEN FALSE
    ELSE IF x.m = <<>> THEN TRUE
    ELSE \/ x.e < y.e
         \/ /\ x.e = y.e
            /\ \E i \in 1..SignificandBits :
                 /\ x.m[i] < y.m[i]
                 /\ \A j \in 1..(i - 1) : x.m[j] = y.m[j]

F64Le(x, y) == x = y \/ F64Lt(x, y)

\* detectBorders with its return value computed as the engine computes it
detectBordersIEEE(img, ctx) ==
    IF ~ctx THEN Crop(F64FromInt(0), F64FromInt(0), F64FromInt(100), F64FromInt(100))
    ELSE LET left   == 0
             right  == img.width - 1
             top    == ScanTop(img, 0, img.height - 1)
             bottom == ScanBottom(img, top, img.height - 1)
         IN  Crop(F64Mul(F64Div(left, img.width), 100),
                  F64Mul(F64Div(top, img.height), 100),
                  F64Mul(F64Div(right - left + 1, img.width), 100),
                  F64Mul(F64Div(bottom - top + 1, img.height), 100))

\* images of one column: each row is the edge colour or a colour that does
\* not match it
TallImages ==
    UNION {[width : {1}, height : {h}, rows : [1..h -> {<<<<10, 10, 10>>>>, <<<<15, 10, 10>>>>}]] :
             h \in 1..MaxRows}

DetectInit ==
    /\ AppAtRest
    /\ RenderAtRest
    /\ NormAtRest
    /\ SharpAtRest
    /\ ScanAtRest
    /\ CropAtRest
    /\ dImage \in TallImages
    /\ dPhase = "decoded"
    /\ dCrop = Crop(F64Zero, F64Zero, F64Zero, F64Zero)

\* detectBorders(img) with a 2D context
DetectBordersCall ==
    /\ dPhase = "decoded"
    /\ dCrop' = detectBordersIEEE(dImage, TRUE)
    /\ dPhase' = "detected"
    /\ UNCHANGED <<dImage, appVars, renderVars, normVars, sharpVars, scanVars, cropVars>>

\* detectBorders(img) when getContext('2d') returns null
DetectBordersNoContext ==
    /\ dPhase = "decoded"
    /\ dCrop' = detectBordersIEEE(dImage, FALSE)
    /\ dPhase' = "failedOpen"
    /\ UNCHANGED <<dImage, appVars, renderVars, normVars, sharpVars, scanVars, cropVars>>

DetectNext ==
    \/ DetectBordersCall
    \/ DetectBordersNoContext

SpecDetect == DetectInit /\ [][DetectNext]_vars

(***************************************************************************)
(* Properties of the border detector's numbers (SpecDetect)                *)
(***************************************************************************)
\* C20: the CropArea detectBorders returns for an image of at least 1x1
\* pixels has x >= 0, y >= 0, 0 < width <= 100, 0 < height <= 100,
\* x + width <= 100 and y + height <= 100, all of them finite numbers.
C20_ValidCropArea ==
    dPhase \in {"detected", "failedOpen"} =>
        /\ \A f \in {dCrop.x, dCrop.y, dCrop.width, dCrop.height} :
             f.m = <<>> \/ (Len(f.m) = SignificandBits /\ f.m[1] = 1)
        /\ F64Le(F64Zero, dCrop.x)
        /\ F64Le(F64Zero, dCrop.y)
        /\ F64Lt(F64Zero, dCrop.width) /\ F64Le(dCrop.width, F64FromInt(100))
        /\ F64Lt(F64Zero, dCrop.height) /\ F64Le(dCrop.height, F64FromInt(100))
        /\ F64Le(F64Add(dCrop.x, dCrop.width), F64FromInt(100))
        /\ F64Le(F64Add(dCrop.y, dCrop.height), F64FromInt(100))

(***************************************************************************)
(* One processImage call, step by step, next to the preview of the same    *)
(* props                                                                   *)
(***************************************************************************)
RenderMasters ==
    {CanonicalImage(9, 16), CanonicalImage(1, 3), CanonicalImage(3, 1), CanonicalImage(0, 0)}

RenderCrops ==
    {IdentityCrop, Crop(R(10), R(10), R(80), R(80)), Crop(R(0), R(25), R(100), R(50))}

RenderInit ==
    /\ AppAtRest
    /\ NormAtRest
    /\ SharpAtRest
    /\ DetectAtRest
    /\ ScanAtRest
    /\ CropAtRest
    /\ rArgs \in [spec : {DEVICE_SPECS[d] : d \in DeviceTypes}, fitMode : FitModes,
                  exportMode : ExportModes,
                  adjustments : {NEUTRAL_BASELINE, AUTO_SHINE_PRESET},
                  cropArea : RenderCrops, frameColor : FRAME_COLORS, image : RenderMasters]
    /\ rPhase = "idle"
    /\ rCanvas = DefaultCanvas
    /\ rGeom = NoGeom
    /\ rSettled = <<>>
    /\ rPreview = NoPreview

\* the promise executor: canvas, context and image are created; without a 2D
\* context the promise is rejected and nothing else is set up
ProcessImageCall ==
    /\ rPhase = "idle"
    /\ \E ctx \in BOOLEAN :
         IF ctx
           THEN /\ rPhase' = "loading"
                /\ UNCHANGED rSettled
           ELSE /\ rPhase' = "settled"
                /\ rSettled' = Append(rSettled, [how |-> "reject", value |-> "No context"])
    /\ UNCHANGED <<rArgs, rCanvas, rGeom, rPreview, appVars, normVars, sharpVars, detectVars, scanVars, cropVars>>

\* img.onload: size the canvas, compose, ask for the PNG encoding
ImgOnLoad ==
    /\ rPhase = "loading"
    /\ Decodes(rArgs.image, {})
    /\ rGeom' = [drawn |-> TRUE] @@ OnLoad(rArgs)
    /\ rCanvas' = OnLoad(rArgs).canvas
    /\ rPhase' = "encoding"
    /\ UNCHANGED <<rArgs, rSettled, rPreview, appVars, normVars, sharpVars, detectVars, scanVars, cropVars>>

\* img.onerror
ImgOnError ==
    /\ rPhase = "loading"
    /\ ~Decodes(rArgs.image, {})
    /\ rPhase' = "settled"
    /\ rSettled' = Append(rSettled, [how |-> "reject", value |-> "Load error"])
    /\ UNCHANGED <<rArgs, rCanvas, rGeom, rPreview, appVars, normVars, sharpVars, detectVars, scanVars, cropVars>>

\* ToBlobCallback that starts the render over when the encoding gave no blob
ToBlobCallback_retries ==
    /\ rPhase = "encoding"
    /\ \E blob \in BOOLEAN :
         IF blob
           THEN /\ rSettled' = Append(rSettled, [how |-> "resolve", value |-> "image/png"])
                /\ rPhase' = "settled"
           ELSE /\ rSettled' = rSettled
                /\ rPhase' = "loading"
    /\ UNCHANGED <<rArgs, rCanvas, rGeom, rPreview, appVars, normVars, sharpVars, detectVars, scanVars, cropVars>>

\* the canvas.toBlob callback, with a blob or with null
ToBlobCallback ==
    /\ rPhase = "encoding"
    /\ \E blob \in BOOLEAN :
         rSettled' = Append(rSettled,
                        IF blob THEN [how |-> "resolve", value |-> "image/png"]
                                ELSE [how |-> "reject", value |-> "Processing failed"])
    /\ rPhase' = "settled"
    /\ UNCHANGED <<rArgs, rCanvas, rGeom, rPreview, appVars, normVars, sharpVars, detectVars, scanVars, cropVars>>

\* React renders DeviceMockup with the props the capture would pass to processImage
DeviceMockupRender ==
    /\ ~rPreview.laidOut
    /\ rPreview' = [laidOut |-> TRUE] @@ DeviceMockup(rArgs.spec.id, rArgs.exportMode, rArgs.fitMode)
    /\ UNCHANGED <<rArgs, rPhase, rCanvas, rGeom, rSettled, appVars, normVars, sharpVars, detectVars, scanVars, cropVars>>

RenderNext ==
    \/ ProcessImageCall
    \/ ImgOnLoad
    \/ ImgOnError
    \/ ToBlobCallback
    \/ DeviceMockupRender

SpecRender == RenderInit /\ [][RenderNext]_vars

(***************************************************************************)
(* Properties of one render and its preview (SpecRender)                   *)
(***************************************************************************)
Resolved == rSettled # <<>> /\ rSettled[1].how = "resolve"

\* the rectangle left when every side of the spec's canvas is inset by pct
\* percent of the spec's width
InsetCanvas(spec, pct) ==
    LET d == Rat(spec.width * pct, 100)
    IN  Rect(d, d, RSub(R(spec.width), RMul(R(2), d)), RSub(R(spec.height), RMul(R(2), d)))

Inside(inner, outer) ==
    /\ RLe(outer.x, inner.x)
    /\ RLe(outer.y, inner.y)
    /\ RLe(RAdd(inner.x, inner.w), RAdd(outer.x, outer.w))
    /\ RLe(RAdd(inner.y, inner.h), RAdd(outer.y, outer.h))

KeepsAspect(draw, src) == RMul(draw.w, src.h) = RMul(draw.h, src.w)

\* the drawn rectangle obeys the CSS object-fit rule inside the target
FitRuleApplied(objectFit, g) ==
    CASE objectFit = "fill"    -> g.draw = g.target
      [] objectFit = "contain" -> Inside(g.draw, g.target) /\ KeepsAspect(g.draw, g.source)
      [] objectFit = "cover"   -> Inside(g.target, g.draw) /\ KeepsAspect(g.draw, g.source)

\* C1: whenever the preview and the export of the same props are both laid
\* out, the content viewport has the same horizontal and vertical inset
\* fractions of the device canvas in both, the preview adds no scaling, and
\* the export draws by the preview's object-fit rule.
C1_PreviewMatchesExport ==
    (rPreview.laidOut /\ rGeom.drawn) =>
        /\ RDiv(rPreview.viewport.x, rPreview.previewW) = RDiv(rGeom.target.x, R(rGeom.canvas.width))
        /\ RDiv(rPreview.viewport.y, rPreview.previewH) = RDiv(rGeom.target.y, R(rGeom.canvas.height))
        /\ rPreview.scale = R(1)
        /\ FitRuleApplied(rPreview.objectFit, rGeom)

\* C5: a call that resolved drew on a canvas of exactly spec.width x
\* spec.height pixels.
C5_CanvasIsSpecSize ==
    Resolved => /\ rCanvas.width = rArgs.spec.width
                /\ rCanvas.height = rArgs.spec.height

C5_Witness ==
    /\ Resolved
    /\ rArgs.exportMode = "FRAME"
    /\ rArgs.fitMode = "AUTOFIT"
    /\ rArgs.cropArea # IdentityCrop
    /\ rArgs.spec.id = "CHROMEBOOK"

\* C10: the target content rectangle is the canvas inset on every side by a
\* share of spec.width: in RECTANGLE mode 4% for an Apple spec under FIT and
\* nothing otherwise; in FRAME mode 12%, or 10% for an Android tablet, taken
\* from the full canvas whatever the fit mode.
C10_TargetRectangle ==
    rGeom.drawn =>
        LET spec == rArgs.spec
            pct  == IF rArgs.exportMode = "RECTANGLE"
                      THEN (IF spec.platform = "APPLE" /\ rArgs.fitMode = "FIT" THEN 4 ELSE 0)
                      ELSE (IF spec.platform = "ANDROID" /\ spec.isTablet THEN 10 ELSE 12)
        IN  rGeom.target = InsetCanvas(spec, pct)

C10_Witness ==
    /\ rGeom.drawn
    /\ rArgs.exportMode = "FRAME"
    /\ rArgs.fitMode = "FIT"
    /\ rArgs.spec.id = "IPAD"
    /\ rGeom.target.x = Rat(2048 * 12, 100)

\* the source rectangle's and the target rectangle's width : height
ImgRatio    == RDiv(rGeom.source.w, rGeom.source.h)
TargetRatio == RDiv(rGeom.target.w, rGeom.target.h)

CentredX(draw, target) ==
    RAdd(RMul(R(2), draw.x), draw.w) = RAdd(RMul(R(2), target.x), target.w)

CentredY(draw, target) ==
    RAdd(RMul(R(2), draw.y), draw.h) = RAdd(RMul(R(2), target.y), target.h)

\* C11: in FIT mode the drawn rectangle has the source rectangle's aspect
\* ratio, lies inside the target rectangle and spans it on one axis; a source
\* relatively narrower than the target starts at the target's top, takes its
\* whole height and is centred horizontally; a relatively wider source starts
\* at the target's left, takes its whole width and is centred vertically.
C11_FitLetterboxes ==
    (rGeom.drawn /\ rArgs.fitMode = "FIT") =>
        LET d == rGeom.draw
            t == rGeom.target
        IN  /\ KeepsAspect(d, rGeom.source)
            /\ Inside(d, t)
            /\ d.w = t.w \/ d.h = t.h
            /\ CentredX(d, t) /\ CentredY(d, t)
            /\ RLt(ImgRatio, TargetRatio) =>
                 d.y = t.y /\ d.h = t.h /\ RLt(d.w, t.w) /\ RLt(t.x, d.x)
            /\ RLt(TargetRatio, ImgRatio) =>
                 d.x = t.x /\ d.w = t.w /\ RLt(d.h, t.h) /\ RLt(t.y, d.y)

C11_Witness ==
    /\ rGeom.drawn
    /\ rArgs.fitMode = "FIT"
    /\ RLt(ImgRatio, TargetRatio)
    /\ RLt(rGeom.target.x, rGeom.draw.x)
    /\ rGeom.draw.y = rGeom.target.y

HeightLocked ==
    /\ rArgs.spec.platform = "ANDROID"
    /\ rArgs.spec.isTablet
    /\ RLt(ImgRatio, TargetRatio)

\* C12: in AUTOFIT mode the drawn rectangle has the source rectangle's aspect
\* ratio and is centred in the target; it covers the whole target rectangle,
\* except for an Android tablet spec with imgRatio < targetRatio, where
\* drawH is targetH, drawW is targetH * imgRatio and the rectangle is centred
\* horizontally.
C12_AutofitCovers ==
    (rGeom.drawn /\ rArgs.fitMode = "AUTOFIT") =>
        LET d == rGeom.draw
            t == rGeom.target
        IN  /\ KeepsAspect(d, rGeom.source)
            /\ CentredX(d, t) /\ CentredY(d, t)
            /\ IF HeightLocked
                 THEN /\ d.h = t.h
                      /\ d.y = t.y
                      /\ d.w = RMul(t.h, ImgRatio)
                 ELSE /\ Inside(t, d)
                      /\ d.w = t.w \/ d.h = t.h

C12_Witness ==
    /\ rGeom.drawn
    /\ rArgs.fitMode = "AUTOFIT"
    /\ HeightLocked
    /\ rGeom.draw.h = rGeom.target.h
    /\ RLt(rGeom.draw.w, rGeom.target.w)

\* C13: in STRETCH mode the drawn rectangle is the target rectangle: the same
\* x, y, width and height, whatever the source's aspect ratio, the device
\* spec and the export mode.
C13_StretchFillsTarget ==
    (rGeom.drawn /\ rArgs.fitMode = "STRETCH") =>
        /\ rGeom.draw.x = rGeom.target.x
        /\ rGeom.draw.y = rGeom.target.y
        /\ rGeom.draw.w = rGeom.target.w
        /\ rGeom.draw.h = rGeom.target.h

C13_Witness ==
    /\ rGeom.drawn
    /\ rArgs.fitMode = "STRETCH"
    /\ rArgs.exportMode = "FRAME"
    /\ ImgRatio # TargetRatio
    /\ rGeom.draw = rGeom.target

\* what img.onload computes for the same master, crop, mode and fit policy
\* when the device spec is another one
GeomFor(deviceType) == OnLoad([rArgs EXCEPT !.spec = DEVICE_SPECS[deviceType]])

\* drawH / targetH
HeightShare(g) == RDiv(g.draw.h, g.target.h)

\* an AUTOFIT render of a master that decodes, for the Android phone or the
\* 7-inch Android tablet
ParityCase ==
    /\ rGeom.drawn
    /\ rArgs.fitMode = "AUTOFIT"
    /\ rArgs.spec.id \in {"PHONE", "TABLET_7"}

\* the source rectangle is relatively narrower than the phone's content viewport
NarrowerThanPhoneViewport ==
    RLt(ImgRatio, RDiv(GeomFor("PHONE").target.w, GeomFor("PHONE").target.h))

Rank(phase) ==
    CASE phase = "idle"     -> 0
      [] phase = "loading"  -> 1
      [] phase = "encoding" -> 2
      [] phase = "settled"  -> 3

Rejection(value) == [how |-> "reject", value |-> value]

\* the promise is settled by the step that ends the call, with the value
\* that belongs to where the call was; a call that is not settled is waiting
\* for the one step that takes it forward (the executor, load or error, the
\* toBlob callback)
SettledByCause ==
    /\ rPhase = "settled" <=> Len(rSettled) = 1
    /\ rPhase # "settled" => rPhase \in {"idle", "loading", "encoding"}
    /\ Len(rSettled) <= 1
    /\ rSettled # <<>> =>
         CASE rSettled[1] = Rejection("No context") ->
                ~rGeom.drawn /\ rCanvas = DefaultCanvas
           [] rSettled[1] = Rejection("Load error") ->
                ~rGeom.drawn /\ ~Decodes(rArgs.image, {})
           [] rSettled[1] = Rejection("Processing failed") ->
                rGeom.drawn /\ Decodes(rArgs.image, {})
           [] rSettled[1] = [how |-> "resolve", value |-> "image/png"] ->
                rGeom.drawn /\ Decodes(rArgs.image, {})
           [] OTHER -> FALSE

SettlingStep ==
    rSettled' # rSettled =>
        /\ rSettled = <<>>
        /\ CASE rPhase = "idle"     -> rSettled' = <<Rejection("No context")>>
             [] rPhase = "loading"  -> rSettled' = <<Rejection("Load error")>>
             [] rPhase = "encoding" ->
                  rSettled' \in {<<Rejection("Processing failed")>>,
                                 <<[how |-> "resolve", value |-> "image/png"]>>}
             [] OTHER -> FALSE

\* C16: a processImage call settles its promise once and only once, every
\* step of the call takes it forward to that settlement and no phase is ever
\* entered again: it rejects with 'No context' straight from the call, with
\* 'Load error' when the master does not decode, with 'Processing failed'
\* after a composition whose encoding gave no blob, and otherwise resolves
\* with a PNG blob.
C16_SettlesOnceNoRetry ==
    /\ []SettledByCause
    /\ [][/\ SettlingStep
          /\ Rank(rPhase') >= Rank(rPhase)
          /\ rPhase' # rPhase => Rank(rPhase') > Rank(rPhase)]_vars

C16_Witness ==
    /\ rPhase = "settled"
    /\ rSettled = <<Rejection("Processing failed")>>
    /\ rGeom.drawn

(***************************************************************************)
(* One upload, step by step (SpecNormalize)                                *)
(***************************************************************************)
EdgePx == <<10, 10, 10>>
NearPx == <<14, 6, 10>>
FarPx  == <<15, 10, 10>>

\* rows of w pixels: the edge colour throughout, a colour within the
\* tolerance throughout, and the edge colour with one pixel off by the tolerance
RowsOf(w) ==
    {[x \in 1..w |-> EdgePx], [x \in 1..w |-> NearPx],
     [x \in 1..w |-> IF x = w THEN FarPx ELSE EdgePx]}

Images ==
    UNION {[width : {w}, height : {h}, rows : [1..h -> RowsOf(w)]] :
             <<w, h>> \in (1..MaxImgW) \X (1..MaxImgH)}

\* a File: an image that decodes, a file over 8 MB, a file of another MIME
\* type, or an image file that does not decode
Files ==
    {[kind |-> "image", width |-> i.width, height |-> i.height, rows |-> i.rows, device |-> d] :
        i \in Images, d \in DeviceTypes}
    \cup {[kind |-> k, width |-> 1, height |-> 1, rows |-> <<<<EdgePx>>>>, device |-> d] :
        k \in {"tooBig", "notImage", "corrupt"}, d \in DeviceTypes}

ImageOf(file) == [width |-> file.width, height |-> file.height, rows |-> file.rows]

\* the uploaded image used as it is
RawImage(file) == [kind |-> "raw", width |-> file.width, height |-> file.height, ref |-> <<>>]

NormalizeInit ==
    /\ AppAtRest
    /\ RenderAtRest
    /\ SharpAtRest
    /\ DetectAtRest
    /\ ScanAtRest
    /\ CropAtRest
    /\ nFile \in Files
    /\ nPhase = "idle"
    /\ nDetected = IdentityCrop
    /\ nRect = IdentityCrop
    /\ nInset = 0
    /\ nImage = NullImage
    /\ nCtx = [detect |-> TRUE, asset |-> TRUE]

\* processFile: the size and type guards
ProcessFileRefuse ==
    /\ nPhase = "idle"
    /\ nFile.kind \in {"tooBig", "notImage"}
    /\ nPhase' = "refused"
    /\ UNCHANGED <<nFile, nDetected, nRect, nInset, nImage, nCtx, appVars, renderVars, sharpVars, detectVars, scanVars, cropVars>>

\* processFile: reader.readAsDataURL(file)
ProcessFileRead ==
    /\ nPhase = "idle"
    /\ nFile.kind \in {"image", "corrupt"}
    /\ nPhase' = "reading"
    /\ UNCHANGED <<nFile, nDetected, nRect, nInset, nImage, nCtx, appVars, renderVars, sharpVars, detectVars, scanVars, cropVars>>

\* reader.onload: img.src = dataUrl
ReaderOnLoad ==
    /\ nPhase = "reading"
    /\ nPhase' = "decoding"
    /\ UNCHANGED <<nFile, nDetected, nRect, nInset, nImage, nCtx, appVars, renderVars, sharpVars, detectVars, scanVars, cropVars>>

\* img.onload: detect, inset, rasterize, setState
UploadOnLoad ==
    /\ nPhase = "decoding"
    /\ nFile.kind = "image"
    /\ \E ctxDetect \in BOOLEAN, ctxAsset \in BOOLEAN :
         LET img == ImageOf(nFile)
             detected == detectBorders(img, ctxDetect)
             spec == DEVICE_SPECS[nFile.device]
         IN  /\ nCtx' = [detect |-> ctxDetect, asset |-> ctxAsset]
             /\ nDetected' = detected
             /\ nInset' = IF spec.platform = "APPLE" THEN InsetFactorPct(detected) ELSE 0
             /\ nRect' = NormalizationRect(detected, spec)
             /\ nImage' = ProcessFileOnLoad(InitialState, img, nFile.device, ctxDetect, ctxAsset).image
    /\ nPhase' = "done"
    /\ UNCHANGED <<nFile, appVars, renderVars, sharpVars, detectVars, scanVars, cropVars>>

NormalizeNext ==
    \/ ProcessFileRefuse
    \/ ProcessFileRead
    \/ ReaderOnLoad
    \/ UploadOnLoad

SpecNormalize == NormalizeInit /\ [][NormalizeNext]_vars

(***************************************************************************)
(* Properties of normalization (SpecNormalize)                             *)
(***************************************************************************)
OnApple == DEVICE_SPECS[nFile.device].platform = "APPLE"

\* C7, as claimed: during Apple normalization a detected crop of at least 95%
\* in either dimension gets the 4% inset, and only a crop below 95% in both
\* dimensions gets the 8% inset.
C7_EitherDimensionIsStandard ==
    (nPhase = "done" /\ OnApple) =>
        nInset = IF RLe(R(95), nDetected.width) \/ RLe(R(95), nDetected.height) THEN 4 ELSE 8

\* C7, amended: during Apple normalization a detected crop of at least 95% in
\* both dimensions gets the 4% inset, and a crop below 95% in either
\* dimension gets the 8% inset.
C7_BothDimensionsAreStandard ==
    (nPhase = "done" /\ OnApple) =>
        nInset = IF RLe(R(95), nDetected.width) /\ RLe(R(95), nDetected.height) THEN 4 ELSE 8

C7_Witness ==
    /\ nPhase = "done"
    /\ OnApple
    /\ nDetected.width = R(100)
    /\ RLt(nDetected.height, R(95))
    /\ nInset = 8

\* C8: on Apple the normalization rectangle is the detected crop inset by the
\* chosen factor f of the crop's own width and height on every side, so it
\* keeps the crop's centre and lies inside the crop; on Android it is the
\* rectangle detectBorders returned.
C8_SymmetricInset ==
    nPhase = "done" =>
        IF OnApple
          THEN LET f == Pct(nInset)
                   d == nDetected
               IN  /\ nInset \in {4, 8}
                   /\ nRect.x = RAdd(d.x, RMul(f, d.width))
                   /\ nRect.y = RAdd(d.y, RMul(f, d.height))
                   /\ nRect.width = RMul(RSub(R(1), RMul(R(2), f)), d.width)
                   /\ nRect.height = RMul(RSub(R(1), RMul(R(2), f)), d.height)
                   /\ RAdd(RMul(R(2), nRect.x), nRect.width) = RAdd(RMul(R(2), d.x), d.width)
                   /\ RAdd(RMul(R(2), nRect.y), nRect.height) = RAdd(RMul(R(2), d.y), d.height)
                   /\ RLe(d.x, nRect.x) /\ RLe(d.y, nRect.y)
                   /\ RLe(RAdd(nRect.x, nRect.width), RAdd(d.x, d.width))
                   /\ RLe(RAdd(nRect.y, nRect.height), RAdd(d.y, d.height))
          ELSE nRect = nDetected /\ nRect = detectBorders(ImageOf(nFile), nCtx.detect)

C8_Witness ==
    /\ nPhase = "done"
    /\ OnApple
    /\ RLt(R(0), nDetected.y)
    /\ RLt(nDetected.height, R(95))
    /\ nRect.y = RAdd(nDetected.y, RMul(Pct(8), nDetected.height))

\* C9: when createCanonicalAsset gets no raster context, the upload ends with
\* the raw uploaded image as the editor's master.
C9_FallsBackToRawUpload ==
    (nPhase = "done" /\ ~nCtx.asset) => nImage = RawImage(nFile)

\* every pixel of the upload matches its top-left pixel
UniformImage ==
    \A y \in 0..(nFile.height - 1) : rowUniform(ImageOf(nFile), y)

\* C18, as claimed: on an upload whose pixels all match the top-left pixel,
\* detectBorders returns x = 0, y = 0, width = 100 and the height of one row.
C18_UniformImageKeepsFirstRow ==
    (nPhase = "done" /\ nCtx.detect /\ UniformImage) =>
        nDetected = Crop(R(0), R(0), R(100), RMul(Rat(1, nFile.height), R(100)))

\* C18, amended: on an upload whose pixels all match the top-left pixel,
\* detectBorders returns x = 0, width = 100 and the one row top and bottom
\* meet on, which is the last row: y = (height - 1) / height * 100 and
\* height = 1 / height * 100.
C18_UniformImageKeepsLastRow ==
    (nPhase = "done" /\ nCtx.detect /\ UniformImage) =>
        nDetected = Crop(R(0), RMul(Rat(nFile.height - 1, nFile.height), R(100)),
                         R(100), RMul(Rat(1, nFile.height), R(100)))

C18_Witness ==
    /\ nPhase = "done"
    /\ nCtx.detect
    /\ UniformImage
    /\ nFile.height = MaxImgH
    /\ RLt(R(0), nDetected.y)
    /\ RAdd(nDetected.y, nDetected.height) = R(100)

\* each of R, G and B differs by no more than 5
WithinFive(c1, c2) ==
    \A k \in 1..3 : Abs(c1[k] - c2[k]) <= 5

\* C19: in detectBorders a pixel matches the edge colour exactly when each of
\* its R, G and B values is within 5 of the top-left pixel's, and a row is
\* uniform exactly when every pixel of it is.
C19_ToleranceIsInclusive ==
    (nPhase = "done" /\ nCtx.detect) =>
        LET img == ImageOf(nFile)
        IN  \A y \in 0..(img.height - 1) :
              /\ \A x \in 0..(img.width - 1) :
                   isSameColor(getPixel(img, x, y), getPixel(img, 0, 0))
                     <=> WithinFive(getPixel(img, x, y), getPixel(img, 0, 0))
              /\ rowUniform(img, y)
                   <=> \A x \in 0..(img.width - 1) :
                         WithinFive(getPixel(img, x, y), getPixel(img, 0, 0))

\* C28: for every source image of at least 1x1 pixels and either platform,
\* the canonical master that normalization produces (border detection, the
\* Apple inset, then a canvas of integer width and height) has at least 1
\* pixel in width and in height.
C28_CanonicalMasterHasPixels ==
    (nPhase = "done" /\ nCtx.asset) =>
        /\ nImage.kind = "canonical"
        /\ nImage.width >= 1
        /\ nImage.height >= 1

(***************************************************************************)
(* imageUtils.ts: detectBorders, one step per loop iteration (SpecScan)    *)
(***************************************************************************)
\* the guard of the first while loop, tested with <=
TopLoopRuns_toBottom(top, bottom) == top <= bottom

\* while (top < bottom)
TopLoopRuns(top, bottom) == top < bottom

\* while (bottom > top)
BottomLoopRuns(top, bottom) == bottom > top

\* the x at which the inner for loop over row y stops: the first pixel that
\* does not match the edge colour, img.width when every pixel matches
FirstMismatch(img, y) ==
    LET off == {x \in 0..(img.width - 1) :
                  ~isSameColor(getPixel(img, x, y), getPixel(img, 0, 0))}
    IN  IF off = {} THEN img.width ELSE CHOOSE x \in off : \A o \in off : x <= o

\* the inner loop that judges a row by its first pixel only
RowReads_firstPixel(img, y) == {<<0, y>>}

\* the getPixel calls of the inner for loop over row y
RowReads(img, y) ==
    {<<x, y>> : x \in {i \in 0..(img.width - 1) : i <= FirstMismatch(img, y)}}

\* rowUniform after the inner for loop, from the pixels it read
RowUniformAfter(img, y) ==
    \A p \in RowReads(img, y) : isSameColor(getPixel(img, p[1], p[2]), getPixel(img, 0, 0))

ScanInit ==
    /\ AppAtRest
    /\ RenderAtRest
    /\ NormAtRest
    /\ SharpAtRest
    /\ DetectAtRest
    /\ CropAtRest
    /\ scanImage \in Images
    /\ scanCtx \in BOOLEAN
    /\ scanPhase = "called"
    /\ scanTop = 0
    /\ scanBottom = 0
    /\ scanReads = {}
    /\ scanBodies = [top |-> 0, bottom |-> 0]
    /\ scanCrop = IdentityCrop

scanRest == <<appVars, renderVars, normVars, sharpVars, detectVars, cropVars>>

\* getContext returns null, and the scan is made all the same
GetContextNull_scans ==
    /\ scanPhase = "called"
    /\ ~scanCtx
    /\ scanTop' = 0
    /\ scanBottom' = scanImage.height - 1
    /\ scanReads' = {<<0, 0>>}
    /\ scanPhase' = "top"
    /\ UNCHANGED <<scanImage, scanCtx, scanBodies, scanCrop, scanRest>>

\* if (!ctx) return { x: 0, y: 0, width: 100, height: 100 }
GetContextNull ==
    /\ scanPhase = "called"
    /\ ~scanCtx
    /\ scanCrop' = Crop(R(0), R(0), R(100), R(100))
    /\ scanPhase' = "returned"
    /\ UNCHANGED <<scanImage, scanCtx, scanTop, scanBottom, scanReads, scanBodies, scanRest>>

\* drawImage, getImageData, the four locals and edgeColor = getPixel(0, 0)
GetImageData ==
    /\ scanPhase = "called"
    /\ scanCtx
    /\ scanTop' = 0
    /\ scanBottom' = scanImage.height - 1
    /\ scanReads' = {<<0, 0>>}
    /\ scanPhase' = "top"
    /\ UNCHANGED <<scanImage, scanCtx, scanBodies, scanCrop, scanRest>>

\* one run of the body of while (top < bottom)
TopLoopBody ==
    /\ scanPhase = "top"
    /\ TopLoopRuns(scanTop, scanBottom)
    /\ scanReads' = scanReads \cup RowReads(scanImage, scanTop)
    /\ scanBodies' = [scanBodies EXCEPT !.top = @ + 1]
    /\ IF RowUniformAfter(scanImage, scanTop)
         THEN scanTop' = scanTop + 1 /\ scanPhase' = "top"
         ELSE scanTop' = scanTop /\ scanPhase' = "bottom"
    /\ UNCHANGED <<scanImage, scanCtx, scanBottom, scanCrop, scanRest>>

\* the guard of the first loop fails
TopLoopExit ==
    /\ scanPhase = "top"
    /\ ~TopLoopRuns(scanTop, scanBottom)
    /\ scanPhase' = "bottom"
    /\ UNCHANGED <<scanImage, scanCtx, scanTop, scanBottom, scanReads, scanBodies, scanCrop,
                   scanRest>>

\* one run of the body of while (bottom > top)
BottomLoopBody ==
    /\ scanPhase = "bottom"
    /\ BottomLoopRuns(scanTop, scanBottom)
    /\ scanReads' = scanReads \cup RowReads(scanImage, scanBottom)
    /\ scanBodies' = [scanBodies EXCEPT !.bottom = @ + 1]
    /\ IF RowUniformAfter(scanImage, scanBottom)
         THEN scanBottom' = scanBottom - 1 /\ scanPhase' = "bottom"
         ELSE scanBottom' = scanBottom /\ scanPhase' = "scanned"
    /\ UNCHANGED <<scanImage, scanCtx, scanTop, scanCrop, scanRest>>

\* the guard of the second loop fails
BottomLoopExit ==
    /\ scanPhase = "bottom"
    /\ ~BottomLoopRuns(scanTop, scanBottom)
    /\ scanPhase' = "scanned"
    /\ UNCHANGED <<scanImage, scanCtx, scanTop, scanBottom, scanReads, scanBodies, scanCrop,
                   scanRest>>

\* the return statement, with left = 0 and right = img.width - 1
ScanReturn ==
    /\ scanPhase = "scanned"
    /\ scanCrop' = Crop(RMul(Rat(0, scanImage.width), R(100)),
                        RMul(Rat(scanTop, scanImage.height), R(100)),
                        RMul(Rat((scanImage.width - 1) - 0 + 1, scanImage.width), R(100)),
                        RMul(Rat(scanBottom - scanTop + 1, scanImage.height), R(100)))
    /\ scanPhase' = "returned"
    /\ UNCHANGED <<scanImage, scanCtx, scanTop, scanBottom, scanReads, scanBodies, scanRest>>

ScanNext ==
    \/ GetContextNull
    \/ GetImageData
    \/ TopLoopBody
    \/ TopLoopExit
    \/ BottomLoopBody
    \/ BottomLoopExit
    \/ ScanReturn

SpecScan == ScanInit /\ [][ScanNext]_vars

(***************************************************************************)
(* Properties of the scan loops (SpecScan)                                 *)
(***************************************************************************)
Scanning == scanPhase \in {"top", "bottom", "scanned", "returned"}

\* C21: for an image of at least 1x1 pixels both scan loops terminate (their
\* bodies run at most height times in all, each run that does not break
\* moving top or bottom one row towards the other), 0 <= top <= bottom <=
\* height - 1 holds throughout, getPixel is only called with coordinates
\* inside the image, and on a 1x1 image neither loop body runs.
C21_ScanLoopsStayInside ==
    Scanning =>
        /\ 0 <= scanTop /\ scanTop <= scanBottom /\ scanBottom <= scanImage.height - 1
        /\ \A p \in scanReads :
             /\ 0 <= p[1] /\ p[1] < scanImage.width
             /\ 0 <= p[2] /\ p[2] < scanImage.height
        /\ scanBodies.top + scanBodies.bottom <= scanImage.height
        /\ scanTop + (scanImage.height - 1 - scanBottom) + 2
             >= scanBodies.top + scanBodies.bottom
        /\ (scanImage.width = 1 /\ scanImage.height = 1) =>
             scanBodies = [top |-> 0, bottom |-> 0]

\* both loops have run on the tallest image until top met bottom
C21_Witness ==
    /\ scanPhase = "returned"
    /\ scanCtx
    /\ scanImage.height = MaxImgH
    /\ scanBodies.top >= 2
    /\ scanBodies.bottom >= 1
    /\ scanTop = scanBottom

\* C22: without a 2D context detectBorders returns the identity crop
\* {x: 0, y: 0, width: 100, height: 100}, reads no pixel and does not throw:
\* the call goes from its start straight to its return.
C22_NoContextIdentityCrop ==
    ~scanCtx =>
        /\ scanPhase \in {"called", "returned"}
        /\ scanReads = {}
        /\ scanBodies = [top |-> 0, bottom |-> 0]
        /\ scanPhase = "returned" =>
             scanCrop = [x |-> R(0), y |-> R(0), width |-> R(100), height |-> R(100)]

C22_Witness ==
    /\ ~scanCtx
    /\ scanPhase = "returned"
    /\ scanImage.height = MaxImgH
    /\ scanImage.rows[1] # scanImage.rows[2]

\* some pixel of row y differs from the top-left pixel by 5 or more in R, G or B
OffEdgeRow(y) ==
    \E x \in 1..scanImage.width : \E c \in 1..3 :
        Abs(scanImage.rows[y + 1][x][c] - scanImage.rows[1][1][c]) >= 5

OffEdgeRows == {y \in 0..(scanImage.height - 1) : OffEdgeRow(y)}

\* C25: detectBorders trims whole rows from the top and the bottom only: when
\* some row is not uniform the region starts at the first such row from the
\* top and ends at the first such row from the bottom, so no such row is left
\* out, and the region always has x = 0 and width = 100.
C25_TrimsOnlyUniformRows ==
    scanPhase = "returned" =>
        /\ scanCrop.x = R(0)
        /\ scanCrop.width = R(100)
        /\ (scanCtx /\ OffEdgeRows # {}) =>
             LET first == CHOOSE y \in OffEdgeRows : \A o \in OffEdgeRows : y <= o
                 last  == CHOOSE y \in OffEdgeRows : \A o \in OffEdgeRows : y >= o
             IN  /\ scanCrop.y = RMul(Rat(first, scanImage.height), R(100))
                 /\ RAdd(scanCrop.y, scanCrop.height)
                      = RMul(Rat(last + 1, scanImage.height), R(100))
                 /\ \A y \in OffEdgeRows : scanTop <= y /\ y <= scanBottom

\* rows trimmed at both ends of an image whose only non-uniform row is inside
C25_Witness ==
    /\ scanPhase = "returned"
    /\ scanCtx
    /\ scanImage.width = MaxImgW
    /\ OffEdgeRows = {1}
    /\ scanTop = 1
    /\ scanBottom = 1
    /\ scanImage.height = MaxImgH

(***************************************************************************)
(* CropEditor.tsx computes with signed binary64 numbers: differences,      *)
(* products and quotients of two doubles.  Naturals too large for a        *)
(* 32-bit integer are bit sequences, most significant bit first.           *)
(***************************************************************************)
\* the bits without their leading zeros
StripZeros(bits) ==
    IF \A i \in 1..Len(bits) : bits[i] = 0 THEN <<>>
    ELSE LET first == CHOOSE i \in 1..Len(bits) :
                        bits[i] = 1 /\ \A j \in 1..(i - 1) : bits[j] = 0
         IN  SubSeq(bits, first, Len(bits))

\* the natural number whose bits are given, below 2^31
RECURSIVE IntOf(_)
IntOf(bits) ==
    IF bits = <<>> THEN 0
    ELSE IF Len(bits) = 1 THEN bits[1]
    ELSE LET half == Len(bits) \div 2
         IN  IntOf(SubSeq(bits, 1, Len(bits) - half)) * Pow2(half)
               + IntOf(SubSeq(bits, Len(bits) - half + 1, Len(bits)))

\* n as exactly width bits, n below 2^width
RECURSIVE Padded(_, _)
Padded(n, width) ==
    IF width = 0 THEN <<>>
    ELSE IF width = 1 THEN <<n>>
    ELSE LET half == width \div 2
         IN  Padded(n \div Pow2(half), width - half) \o Padded(n % Pow2(half), half)

\* long bit sequences are added and subtracted in chunks of HalfBits bits,
\* each small enough for a 32-bit integer
HalfBits == (SignificandBits + 1) \div 2

Half == Pow2(HalfBits)

NChunks(bits) == (Len(bits) + HalfBits - 1) \div HalfBits

\* chunk i of n, counted from the most significant one
Chunk(bits, i, n) ==
    LET padded == Zeros(n * HalfBits - Len(bits)) \o bits
    IN  IntOf(SubSeq(padded, (i - 1) * HalfBits + 1, i * HalfBits))

\* the bits of (the first i chunks of a) + (the first i chunks of b) + carry,
\* followed by low
RECURSIVE AddChunks(_, _, _, _, _, _)
AddChunks(a, b, n, i, carry, low) ==
    IF i = 0 THEN <<carry>> \o low
    ELSE AddChunks(a, b, n, i - 1,
                   (Chunk(a, i, n) + Chunk(b, i, n) + carry) \div Half,
                   Padded((Chunk(a, i, n) + Chunk(b, i, n) + carry) % Half, HalfBits) \o low)

\* the bits of (the first i chunks of a) - (the first i chunks of b) - borrow,
\* followed by low; a not below b
RECURSIVE SubChunks(_, _, _, _, _, _)
SubChunks(a, b, n, i, borrow, low) ==
    IF i = 0 THEN low
    ELSE SubChunks(a, b, n, i - 1,
                   IF Chunk(a, i, n) - Chunk(b, i, n) - borrow < 0 THEN 1 ELSE 0,
                   Padded((Chunk(a, i, n) - Chunk(b, i, n) - borrow) % Half, HalfBits) \o low)

\* RoundToDouble with the unit in the last place added in chunks
RoundToNearest(bits, e, sticky) ==
    LET n == Len(bits)
    IN  IF n <= SignificandBits
          THEN [e |-> e, m |-> bits \o Zeros(SignificandBits - n)]
          ELSE LET kept  == SubSeq(bits, 1, SignificandBits)
                   guard == bits[SignificandBits + 1]
                   rest  == sticky \/ \E i \in (SignificandBits + 2)..n : bits[i] = 1
                   up    == guard = 1 /\ (rest \/ kept[SignificandBits] = 1)
                   one   == Zeros(SignificandBits - 1) \o <<1>>
                   inc   == StripZeros(AddChunks(kept, one, NChunks(kept), NChunks(kept), 0, <<>>))
               IN  IF ~up THEN [e |-> e, m |-> kept]
                   ELSE IF Len(inc) > SignificandBits
                          THEN [e |-> e + 1, m |-> SubSeq(inc, 1, SignificandBits)]
                          ELSE [e |-> e, m |-> inc]

\* x + y for two binary64 values that are not negative
F64Sum(x, y) ==
    IF x.m = <<>> THEN y
    ELSE IF y.m = <<>> THEN x
    ELSE LET hi  == IF x.e >= y.e THEN x ELSE y
             lo  == IF x.e >= y.e THEN y ELSE x
             d   == hi.e - lo.e
             a   == hi.m \o Zeros(d)
             b   == Zeros(d) \o lo.m
             sum == StripZeros(AddChunks(a, b, NChunks(a), NChunks(a), 0, <<>>))
         IN  RoundToNearest(sum, hi.e + Len(sum) - Len(a), FALSE)

\* x - y for two binary64 values with x >= y >= 0
F64Sub(x, y) ==
    IF y.m = <<>> THEN x
    ELSE IF x = y THEN F64Zero
    ELSE LET d    == x.e - y.e
             a    == x.m \o Zeros(d)
             b    == Zeros(d) \o y.m
             diff == StripZeros(SubChunks(a, b, NChunks(a), NChunks(a), 0, <<>>))
         IN  RoundToNearest(diff, x.e - (Len(a) - Len(diff)), FALSE)

\* a significand is multiplied in four limbs of LimbBits bits, so that no
\* partial sum leaves the 32-bit integers
LimbBits == (SignificandBits + 3) \div 4

Limb == Pow2(LimbBits)

Limbs(m) ==
    LET padded == Zeros(4 * LimbBits - Len(m)) \o m
    IN  [i \in 1..4 |-> IntOf(SubSeq(padded, (i - 1) * LimbBits + 1, i * LimbBits))]

\* the sum of the limb products of weight Limb^w
ColumnSum(a, b, w) ==
    LET T(i) == IF 8 - w - i \in 1..4 THEN a[i] * b[8 - w - i] ELSE 0
    IN  T(1) + T(2) + T(3) + T(4)

\* the bits of the product from column w upwards, followed by low
RECURSIVE Columns(_, _, _, _, _)
Columns(a, b, w, carry, low) ==
    IF w = 7 THEN Padded(carry, LimbBits) \o low
    ELSE LET c == ColumnSum(a, b, w) + carry
         IN  Columns(a, b, w + 1, c \div Limb, Padded(c % Limb, LimbBits) \o low)

\* x * y for two binary64 values that are not negative
F64Times(x, y) ==
    IF x.m = <<>> \/ y.m = <<>> THEN F64Zero
    ELSE LET p == StripZeros(Columns(Limbs(x.m), Limbs(y.m), 0, 0, <<>>))
         IN  RoundToNearest(p, x.e + y.e + Len(p) - (2 * SignificandBits - 1), FALSE)

\* a significand is divided as two halves, hi * Half + lo
Halves(m) ==
    [hi |-> IntOf(SubSeq(m, 1, Len(m) - HalfBits)),
     lo |-> IntOf(SubSeq(m, Len(m) - HalfBits + 1, Len(m)))]

\* k * a for a small k
ScaleHalves(a, k) ==
    [hi |-> k * a.hi + (k * a.lo) \div Half, lo |-> (k * a.lo) % Half]

LtHalves(a, b) == a.hi < b.hi \/ (a.hi = b.hi /\ a.lo < b.lo)

MinusHalves(a, b) ==
    IF a.lo >= b.lo THEN [hi |-> a.hi - b.hi, lo |-> a.lo - b.lo]
    ELSE [hi |-> a.hi - b.hi - 1, lo |-> a.lo - b.lo + Half]

\* the quotient is computed DigitBits bits at a time
DigitBits == 4

Digit == Pow2(DigitBits)

\* the next digit of the quotient s.r / den appended, and the remainder left
DivisionDigit(s, den) ==
    LET d == CHOOSE d \in 0..(Digit - 1) :
               /\ ~LtHalves(ScaleHalves(s.r, Digit), ScaleHalves(den, d))
               /\ LtHalves(ScaleHalves(s.r, Digit), ScaleHalves(den, d + 1))
    IN  [bits |-> s.bits \o Padded(d, DigitBits),
         r    |-> MinusHalves(ScaleHalves(s.r, Digit), ScaleHalves(den, d))]

\* count more digits of the quotient s.r / den; each digit is a value before
\* the next one is computed
RECURSIVE LongDivisionHalves(_, _, _)
LongDivisionHalves(s, den, count) ==
    IF count = 0 THEN s
    ELSE CHOOSE q \in {LongDivisionHalves(t, den, count - 1) : t \in {DivisionDigit(s, den)}} : TRUE

\* x / y for two binary64 values that are not negative, y > 0
F64Over(x, y) ==
    IF x.m = <<>> THEN F64Zero
    ELSE LET num   == Halves(x.m)
             den   == Halves(y.m)
             below == LtHalves(num, den)
             first == IF below THEN ScaleHalves(num, 2) ELSE num
             q     == LongDivisionHalves([bits |-> <<1>>, r |-> MinusHalves(first, den)], den,
                                         (SignificandBits + DigitBits) \div DigitBits)
         IN  RoundToNearest(q.bits, x.e - y.e - (IF below THEN 1 ELSE 0),
                            q.r # [hi |-> 0, lo |-> 0])

\* a signed binary64 value: its magnitude and whether it is below zero
Signed(neg, mag) == [neg |-> neg /\ mag.m # <<>>, mag |-> mag]

Num(n) == Signed(n < 0, F64FromInt(IF n < 0 THEN 0 - n ELSE n))

\* a + b, a - b, a * b, a / b, a < b and a <= b
Plus(a, b) ==
    IF a.neg = b.neg THEN Signed(a.neg, F64Sum(a.mag, b.mag))
    ELSE IF F64Lt(a.mag, b.mag) THEN Signed(b.neg, F64Sub(b.mag, a.mag))
    ELSE Signed(a.neg, F64Sub(a.mag, b.mag))

Minus(a, b) == Plus(a, Signed(~b.neg, b.mag))

Times(a, b) == Signed(a.neg # b.neg, F64Times(a.mag, b.mag))

Over(a, b) == Signed(a.neg # b.neg, F64Over(a.mag, b.mag))

Less(a, b) ==
    IF a.neg /\ ~b.neg THEN TRUE
    ELSE IF ~a.neg /\ b.neg THEN FALSE
    ELSE IF a.neg THEN F64Lt(b.mag, a.mag)
    ELSE F64Lt(a.mag, b.mag)

AtMost(a, b) == a = b \/ Less(a, b)

\* Math.max and Math.min
MathMax(a, b) == IF Less(a, b) THEN b ELSE a

MathMin(a, b) == IF Less(b, a) THEN b ELSE a

(***************************************************************************)
(* CropEditor.tsx: the crop editor.  The crop is four percentages of the   *)
(* image, held as binary64 numbers.  A drag starts with a mouse down on    *)
(* one of the five crop handles, which remembers the crop of that moment;  *)
(* every mouse move of the drag computes the crop anew from the remembered *)
(* one and the distance the pointer has travelled since the mouse down.    *)
(* The canvas-pan handle moves only the view and manualZoom is never set   *)
(* to a number, so neither is part of the state and the scale of the view  *)
(* is the autoFitScale that useMemo keeps.                                 *)
(***************************************************************************)
BASE_WIDTH == Num(380)

\* 9 / 19.5
VIEWPORT_ASPECT == Over(Num(9), Over(Num(39), Num(2)))

BASE_HEIGHT == Over(BASE_WIDTH, VIEWPORT_ASPECT)

minSize == Num(5)

safety == 140

\* the sizes the ResizeObserver reports for the workspace
WorkspaceSizes == {[w |-> 1280, h |-> 800]}

autoFitScale(size) ==
    IF size.w = 0 \/ size.h = 0 THEN Num(1)
    ELSE LET scaleX == Over(Num(size.w - safety), BASE_WIDTH)
             scaleY == Over(Num(size.h - safety), BASE_HEIGHT)
         IN  MathMax(Over(Num(1), Num(5)),
                     MathMin(scaleX, MathMin(scaleY, Over(Num(5), Num(2)))))

DragPixels == (0 - MaxDragPx)..MaxDragPx

CropHandles == {"move", "top", "bottom", "left", "right"}

FullCrop == Crop(Num(0), Num(0), Num(100), Num(100))

hasChanges == localCrop # FullCrop

\* the crop a mouse move sets: the pointer is (screenDeltaX, screenDeltaY)
\* pixels away from where the mouse went down
DraggedCrop(handle, initialCrop, screenDeltaX, screenDeltaY) ==
    LET logicalDeltaX == Over(Num(screenDeltaX), visualScale)
        logicalDeltaY == Over(Num(screenDeltaY), visualScale)
        deltaXPercent == Times(Over(logicalDeltaX, BASE_WIDTH), initialCrop.width)
        deltaYPercent == Times(Over(logicalDeltaY, BASE_HEIGHT), initialCrop.height)
        moveX == MathMax(Num(0), MathMin(Minus(Num(100), initialCrop.width),
                                         Plus(initialCrop.x, deltaXPercent)))
        moveY == MathMax(Num(0), MathMin(Minus(Num(100), initialCrop.height),
                                         Plus(initialCrop.y, deltaYPercent)))
        topY  == MathMax(Num(0), MathMin(Minus(Plus(initialCrop.y, initialCrop.height), minSize),
                                         Plus(initialCrop.y, deltaYPercent)))
        leftX == MathMax(Num(0), MathMin(Minus(Plus(initialCrop.x, initialCrop.width), minSize),
                                         Plus(initialCrop.x, deltaXPercent)))
    IN  CASE handle = "move" ->
               [initialCrop EXCEPT !.x = moveX, !.y = moveY]
          [] handle = "top" ->
               [initialCrop EXCEPT !.y = topY,
                                   !.height = Minus(initialCrop.height, Minus(topY, initialCrop.y))]
          [] handle = "bottom" ->
               [initialCrop EXCEPT !.height =
                   MathMax(minSize, MathMin(Minus(Num(100), initialCrop.y),
                                            Plus(initialCrop.height, deltaYPercent)))]
          [] handle = "left" ->
               [initialCrop EXCEPT !.x = leftX,
                                   !.width = Minus(initialCrop.width, Minus(leftX, initialCrop.x))]
          [] handle = "right" ->
               [initialCrop EXCEPT !.width =
                   MathMax(minSize, MathMin(Minus(Num(100), initialCrop.x),
                                            Plus(initialCrop.width, deltaXPercent)))]

\* the editor opens on the crop of a fresh master, before the ResizeObserver
\* has reported a size
CropInit ==
    /\ AppAtRest
    /\ RenderAtRest
    /\ NormAtRest
    /\ SharpAtRest
    /\ DetectAtRest
    /\ ScanAtRest
    /\ cropOpen = TRUE
    /\ visualScale = autoFitScale([w |-> 0, h |-> 0])
    /\ localCrop = FullCrop
    /\ isDragging = [handle |-> "null", initialCrop |-> FullCrop]
    /\ cropApplied = <<>>
    /\ cropMoves = MaxDrags

cropRest == <<appVars, renderVars, normVars, sharpVars, detectVars, scanVars>>

\* the ResizeObserver callback, and the useMemo that depends on the size
WorkspaceResized ==
    /\ cropOpen
    /\ \E size \in WorkspaceSizes :
         /\ autoFitScale(size) # visualScale
         /\ visualScale' = autoFitScale(size)
    /\ UNCHANGED <<localCrop, isDragging, cropApplied, cropMoves, cropOpen, cropRest>>

handleMouseDown ==
    /\ cropOpen
    /\ isDragging.handle = "null"
    /\ cropMoves > 0
    /\ \E handle \in CropHandles :
         isDragging' = [handle |-> handle, initialCrop |-> localCrop]
    /\ cropMoves' = cropMoves - 1
    /\ UNCHANGED <<localCrop, cropApplied, visualScale, cropOpen, cropRest>>

handleMouseMove ==
    /\ cropOpen
    /\ isDragging.handle # "null"
    /\ \E screenDeltaX \in DragPixels, screenDeltaY \in DragPixels :
         localCrop' = DraggedCrop(isDragging.handle, isDragging.initialCrop,
                                  screenDeltaX, screenDeltaY)
    /\ UNCHANGED <<isDragging, cropApplied, cropMoves, visualScale, cropOpen, cropRest>>

handleMouseUp ==
    /\ cropOpen
    /\ isDragging.handle # "null"
    /\ isDragging' = [isDragging EXCEPT !.handle = "null"]
    /\ UNCHANGED <<localCrop, cropApplied, cropMoves, visualScale, cropOpen, cropRest>>

\* RESET, confirmed in the modal
handleReset ==
    /\ cropOpen
    /\ isDragging.handle = "null"
    /\ hasChanges
    /\ localCrop' = FullCrop
    /\ UNCHANGED <<isDragging, cropApplied, cropMoves, visualScale, cropOpen, cropRest>>

\* APPLY: onCropChange(localCrop); onClose()
Apply ==
    /\ cropOpen
    /\ isDragging.handle = "null"
    /\ cropApplied' = Append(cropApplied, localCrop)
    /\ cropOpen' = FALSE
    /\ UNCHANGED <<localCrop, isDragging, cropMoves, visualScale, cropRest>>

\* EXIT, confirmed in the modal when there are changes: onClose()
handleExit ==
    /\ cropOpen
    /\ isDragging.handle = "null"
    /\ cropOpen' = FALSE
    /\ UNCHANGED <<localCrop, isDragging, cropApplied, cropMoves, visualScale, cropRest>>

CropNext ==
    \/ WorkspaceResized
    \/ handleMouseDown
    \/ handleMouseMove
    \/ handleMouseUp
    \/ handleReset
    \/ Apply
    \/ handleExit

SpecCrop == CropInit /\ [][CropNext]_vars

\* the CropArea invariant, evaluated as the engine evaluates it
ValidCropArea(c) ==
    /\ AtMost(Num(0), c.x)
    /\ AtMost(Num(0), c.y)
    /\ AtMost(Plus(c.x, c.width), Num(100))
    /\ AtMost(Plus(c.y, c.height), Num(100))
    /\ AtMost(minSize, c.width)
    /\ AtMost(minSize, c.height)

\* C27: starting from the identity crop, every sequence of move, top, bottom,
\* left and right drags keeps x >= 0, y >= 0, x + width <= 100,
\* y + height <= 100, width >= 5 and height >= 5 in the editor's crop, so
\* every crop APPLY hands to onCropChange satisfies the CropArea invariant.
C27_DragsKeepCropValid ==
    /\ cropOpen => ValidCropArea(localCrop)
    /\ \A i \in 1..Len(cropApplied) : ValidCropArea(cropApplied[i])

(***************************************************************************)
(* App.tsx: the editor, the export tray and the capture fan-out.  Tray     *)
(* slots are numbered from 1; 0 stands for the -1 of findIndex.            *)
(***************************************************************************)
\* localStorage SF_ADMIN_BYPASS is not set
isAdmin == FALSE

\* the JavaScript truthiness of state.image: null and '' are falsy
Truthy(image) == image.kind \notin {"null", "empty"}

Slots == 1..TraySlots

\* tray.filter(x => x !== null).length
OccupiedCount(tray) == Cardinality({i \in DOMAIN tray : ~IsNull(tray[i])})

\* tray.findIndex(slot => slot === null)
EmptySlotIndex(tray) ==
    IF \E i \in DOMAIN tray : IsNull(tray[i])
      THEN CHOOSE i \in DOMAIN tray : IsNull(tray[i]) /\ \A j \in 1..(i - 1) : ~IsNull(tray[j])
      ELSE 0

\* tray.findIndex(item => item?.id === id)
IndexOfId(tray, id) ==
    IF \E i \in DOMAIN tray : tray[i].id = id
      THEN CHOOSE i \in DOMAIN tray : tray[i].id = id /\ \A j \in 1..(i - 1) : tray[j].id # id
      ELSE 0

\* bucketItems.reduce((max, item) => Math.max(max, item.index), 0) + 1
CalculatedIndex(tray, targetPlatform, exportMode) ==
    LET bucket == {i \in DOMAIN tray : /\ ~IsNull(tray[i])
                                       /\ tray[i].platform = targetPlatform
                                       /\ tray[i].exportMode = exportMode}
        maxIndexInBucket == IF bucket = {} THEN 0
                            ELSE CHOOSE m \in {tray[i].index : i \in bucket} :
                                   \A i \in bucket : tray[i].index <= m
    IN  maxIndexInBucket + 1

\* TargetSpecs with the registry read backwards
TargetSpecs_reversed(targetPlatform) ==
    LET all == [i \in 1..Len(DeviceOrder) |-> DeviceOrder[Len(DeviceOrder) + 1 - i]]
    IN  SelectSeq(all, LAMBDA d : DEVICE_SPECS[d].platform = targetPlatform)

\* Object.values(DEVICE_SPECS).filter(s => s.platform === targetPlatform), as ids
TargetSpecs(targetPlatform) ==
    SelectSeq(DeviceOrder, LAMBDA d : DEVICE_SPECS[d].platform = targetPlatform)

\* index.toString(): the decimal digits of a number
RECURSIVE toString(_)
toString(n) ==
    LET digit == <<"0", "1", "2", "3", "4", "5", "6", "7", "8", "9">>
    IN  IF n < 10 THEN <<digit[n + 1]>> ELSE toString(n \div 10) \o <<digit[(n % 10) + 1]>>

\* str.padStart(2, '0')
PadStart2(str) == IF Len(str) < 2 THEN <<"0">> \o str ELSE str

\* the file name as its '_'-joined segments, the digits of the index and '.png'
getExportFilename(spec, mode, index) ==
    LET platform  == IF spec.platform = "APPLE" THEN "apple" ELSE "android"
        modeLabel == IF mode = "RECTANGLE" THEN "rect" ELSE "mockup"
        idx       == PadStart2(toString(index))
        device == CASE spec.id = "PHONE"      -> "phone"
                    [] spec.id = "TABLET_7"   -> "tablet"
                    [] spec.id = "TABLET_10"  -> "tablet"
                    [] spec.id = "CHROMEBOOK" -> "chromebook"
                    [] spec.id = "IPHONE"     -> "phone"
                    [] spec.id = "IPHONE_61"  -> "phone"
                    [] spec.id = "IPAD"       -> "tablet"
        size   == CASE spec.id = "TABLET_7"   -> "7in"
                    [] spec.id = "TABLET_10"  -> "10in"
                    [] spec.id = "IPHONE"     -> "6.7"
                    [] spec.id = "IPHONE_61"  -> "6.1"
                    [] spec.id = "IPAD"       -> "12.9"
                    [] OTHER                  -> ""
        segments == SelectSeq(<<platform, device, size, modeLabel>>, LAMBDA seg : seg # "")
    IN  segments \o idx \o <<".png">>

\* the arguments addToTray passes to processImage for one spec: the values its
\* closure holds
RenderArgs(cap, deviceType) ==
    [image |-> cap.image, spec |-> DEVICE_SPECS[deviceType], fitMode |-> cap.fitMode,
     exportMode |-> cap.exportMode, adjustments |-> cap.adjustments,
     cropArea |-> cap.cropArea, frameColor |-> cap.frameColor]

\* Blob drawn from the fit mode, the crop and the adjustments the editor has
\* when the image loads, instead of those passed to the call
Blob_live(args) ==
    [type |-> "image/png", inputs |-> args,
     raster |-> OnLoad([args EXCEPT !.fitMode = state.fitMode, !.cropArea = state.cropArea,
                                    !.adjustments = state.adjustments])]

\* the PNG blob of a resolved processImage call: what was drawn, and the
\* arguments it was drawn from
Blob(args) == [type |-> "image/png", inputs |-> args, raster |-> OnLoad(args)]

\* a render that has not resolved
NullVariant == [deviceType |-> "", renderedImageUrl |-> <<>>, renderedBlob |-> [type |-> ""],
                filename |-> <<>>]

\* URL.createObjectURL: the URL of the blob rendered by capture id for a device;
\* gen tells the URLs created for the same blob apart
ObjectURL(id, deviceType, gen) == <<id, deviceType, gen>>

\* the TrayVariant one fanned-out render returns
Variant(cap, deviceType) ==
    [deviceType       |-> deviceType,
     renderedImageUrl |-> ObjectURL(cap.id, deviceType, 0),
     renderedBlob     |-> Blob(RenderArgs(cap, deviceType)),
     filename         |-> getExportFilename(DEVICE_SPECS[deviceType], cap.exportMode,
                                            cap.calculatedIndex)]

\* Promise.all settles with a value once some promise has one
PromiseAllFulfilled_any(variants) == \E k \in DOMAIN variants : variants[k].deviceType # ""

\* Promise.all(variantPromises) settles with the array of values once every
\* promise has one
PromiseAllFulfilled(variants) == \A k \in DOMAIN variants : variants[k].deviceType # ""

\* newItem
NewItem(cap, variants) ==
    [id |-> cap.id, platform |-> cap.targetPlatform, exportMode |-> cap.exportMode,
     index |-> cap.calculatedIndex, frameColor |-> cap.frameColor, variants |-> variants]

\* the object URLs of an item's variants
URLsOf(item) == {item.variants[k].renderedImageUrl : k \in DOMAIN item.variants} \ {<<>>}

URLsOfTray(tray) == UNION {URLsOf(tray[i]) : i \in DOMAIN tray}

\* a generation no URL known to the page carries, for the URLs a project load creates
FreshGen(known) ==
    CHOOSE g \in 0..Cardinality(known) :
        /\ \A u \in known : u[3] # g
        /\ \A h \in 0..(g - 1) : \E u \in known : u[3] = h

\* project.tray.map(...): every variant gets a new object URL
Rehydrate(tray, gen) ==
    [i \in DOMAIN tray |->
        [tray[i] EXCEPT !.variants =
            [k \in DOMAIN tray[i].variants |->
                [tray[i].variants[k] EXCEPT !.renderedImageUrl =
                    ObjectURL(tray[i].id, tray[i].variants[k].deviceType, gen)]]]]

\* the decoded uploads the user picks from: one pixel; two by three with a
\* uniform first row
Uploads ==
    {[width |-> 1, height |-> 1, rows |-> <<<<EdgePx>>>>],
     [width |-> 2, height |-> 3, rows |-> <<<<EdgePx, NearPx>>, <<FarPx, FarPx>>, <<FarPx, EdgePx>>>>]}

\* the devices the user selects in the editor
EditorDevices == {"IPHONE", "PHONE"}

\* where the brightness slider is moved to (percent)
SliderValues == {80}

\* the crops the crop editor applies
EditorCrops == {Crop(R(10), R(10), R(80), R(80))}

Init ==
    /\ AppAtRest
    /\ RenderAtRest
    /\ NormAtRest
    /\ SharpAtRest
    /\ DetectAtRest
    /\ ScanAtRest
    /\ CropAtRest

\* the modal overlay covers the page: the controls under it get no clicks
PageIsUsable == ~modal.isOpen

CanGesture == PageIsUsable /\ gestures > 0

\* setModal({isOpen: true, ...}); of the state its onConfirm closure could read,
\* the modal keeps what that handler does read
OpenModal(type, onConfirm) ==
    [isOpen |-> TRUE, type |-> type, onConfirm |-> onConfirm, itemId |-> 0, itemIndex |-> 0,
     tray |-> IF onConfirm \in {"save", "load"} THEN state.tray ELSE <<>>,
     isPro |-> onConfirm = "load" /\ state.isPro]

appRest == <<renderVars, normVars, sharpVars, detectVars, scanVars, cropVars>>

\* the device select, followed by the effect that resets the chassis colour
SelectDevice ==
    /\ CanGesture
    /\ \E d \in EditorDevices \ {state.selectedDevice} :
         state' = [state EXCEPT !.selectedDevice = d, !.frameColor = DefaultFrameColor]
    /\ gestures' = gestures - 1
    /\ UNCHANGED <<modal, isAddingToTray, isExporting, capture, savedProjects, objectURLs,
                   nextId, lastCapture, appRest>>

\* the FIT / AUTOFIT / STRETCH buttons
SetFitMode ==
    /\ CanGesture
    /\ \E m \in FitModes \ {state.fitMode} : state' = [state EXCEPT !.fitMode = m]
    /\ gestures' = gestures - 1
    /\ UNCHANGED <<modal, isAddingToTray, isExporting, capture, savedProjects, objectURLs,
                   nextId, lastCapture, appRest>>

\* the FULL / MOCKUP buttons
SetExportMode ==
    /\ CanGesture
    /\ \E m \in ExportModes \ {state.exportMode} : state' = [state EXCEPT !.exportMode = m]
    /\ gestures' = gestures - 1
    /\ UNCHANGED <<modal, isAddingToTray, isExporting, capture, savedProjects, objectURLs,
                   nextId, lastCapture, appRest>>

\* CropEditor's onCropChange
ApplyCrop ==
    /\ CanGesture
    /\ Truthy(state.image)
    /\ \E c \in EditorCrops \ {state.cropArea} : state' = [state EXCEPT !.cropArea = c]
    /\ gestures' = gestures - 1
    /\ UNCHANGED <<modal, isAddingToTray, isExporting, capture, savedProjects, objectURLs,
                   nextId, lastCapture, appRest>>

applyAutoShine ==
    /\ CanGesture
    /\ Truthy(state.image)
    /\ state.adjustments # AUTO_SHINE_PRESET
    /\ state' = [state EXCEPT !.adjustments = AUTO_SHINE_PRESET]
    /\ gestures' = gestures - 1
    /\ UNCHANGED <<modal, isAddingToTray, isExporting, capture, savedProjects, objectURLs,
                   nextId, lastCapture, appRest>>

\* a slider of the adjustments panel, moved to one of SliderValues
AdjustmentSlider ==
    /\ CanGesture
    /\ \E value \in SliderValues \ {state.adjustments.brightness} :
         state' = [state EXCEPT !.adjustments.brightness = value]
    /\ gestures' = gestures - 1
    /\ UNCHANGED <<modal, isAddingToTray, isExporting, capture, savedProjects, objectURLs,
                   nextId, lastCapture, appRest>>

\* the colour picker of the mockup preview
SetFrameColor ==
    /\ CanGesture
    /\ state.exportMode = "FRAME"
    /\ \E hex \in FRAME_COLORS \ {state.frameColor} : state' = [state EXCEPT !.frameColor = hex]
    /\ gestures' = gestures - 1
    /\ UNCHANGED <<modal, isAddingToTray, isExporting, capture, savedProjects, objectURLs,
                   nextId, lastCapture, appRest>>

\* the licence switch
TogglePro ==
    /\ CanGesture
    /\ state' = [state EXCEPT !.isPro = ~state.isPro]
    /\ gestures' = gestures - 1
    /\ UNCHANGED <<modal, isAddingToTray, isExporting, capture, savedProjects, objectURLs,
                   nextId, lastCapture, appRest>>

\* handleFileUpload -> processFile, through reader.onload and img.onload; the
\* drop zone is there while the editor holds no master
processFile ==
    /\ PageIsUsable
    /\ ~Truthy(state.image)
    /\ \E img \in Uploads, ctxAsset \in BOOLEAN :
         state' = ProcessFileOnLoad(state, img, state.selectedDevice, TRUE, ctxAsset)
    /\ UNCHANGED <<modal, isAddingToTray, isExporting, capture, savedProjects, objectURLs,
                   nextId, gestures, lastCapture, appRest>>

\* the discard button of the editor
DiscardMaster ==
    /\ CanGesture
    /\ Truthy(state.image)
    /\ modal' = OpenModal("confirm", "discard")
    /\ UNCHANGED <<state, isAddingToTray, isExporting, capture, savedProjects, objectURLs,
                   nextId, lastCapture, appRest>>
    /\ gestures' = gestures - 1

ConfirmDiscard ==
    /\ modal.isOpen /\ modal.onConfirm = "discard"
    /\ state' = [state EXCEPT !.image = NullImage]
    /\ modal' = NoModal
    /\ UNCHANGED <<isAddingToTray, isExporting, capture, savedProjects, objectURLs,
                   nextId, gestures, lastCapture, appRest>>

editCopyFromTray ==
    /\ CanGesture
    /\ \E i \in Slots :
         /\ ~IsNull(state.tray[i])
         /\ IF Truthy(state.image)
              THEN /\ modal' = OpenModal("alert", "close")
                   /\ UNCHANGED state
              ELSE LET primaryVariant == state.tray[i].variants[1]
                       spec == DEVICE_SPECS[primaryVariant.deviceType]
                   IN  /\ state' = [state EXCEPT
                                      !.image = [kind |-> "url", width |-> spec.width,
                                                 height |-> spec.height,
                                                 ref |-> primaryVariant.renderedImageUrl],
                                      !.cropArea = IdentityCrop,
                                      !.adjustments = NEUTRAL_BASELINE]
                       /\ UNCHANGED modal
    /\ UNCHANGED <<isAddingToTray, isExporting, capture, savedProjects, objectURLs,
                   nextId, lastCapture, appRest>>
    /\ gestures' = gestures - 1

\* addToTray stopped by the tier guard
addToTrayUpgrade ==
    /\ PageIsUsable
    /\ Truthy(state.image) /\ ~isAddingToTray
    /\ ~state.isPro /\ ~isAdmin /\ OccupiedCount(state.tray) >= 1
    /\ modal' = OpenModal("upgrade", "early-access")
    /\ UNCHANGED <<state, isAddingToTray, isExporting, capture, savedProjects, objectURLs,
                   nextId, gestures, lastCapture, appRest>>

\* what an addToTray call that got past its guards holds in its closure
CaptureClosure ==
    LET targetPlatform == DEVICE_SPECS[state.selectedDevice].platform
        targetSpecs    == TargetSpecs(targetPlatform)
    IN  [id |-> nextId, image |-> state.image, fitMode |-> state.fitMode,
         exportMode |-> state.exportMode, adjustments |-> state.adjustments,
         cropArea |-> state.cropArea, frameColor |-> state.frameColor,
         emptySlotIndex |-> EmptySlotIndex(state.tray),
         targetPlatform |-> targetPlatform,
         calculatedIndex |-> CalculatedIndex(state.tray, targetPlatform, state.exportMode),
         targetSpecs |-> targetSpecs,
         variants |-> [k \in 1..Len(targetSpecs) |-> NullVariant]]

CanCapture ==
    /\ PageIsUsable
    /\ Truthy(state.image) /\ ~isAddingToTray
    /\ ~(~state.isPro /\ ~isAdmin /\ OccupiedCount(state.tray) >= 1)
    /\ EmptySlotIndex(state.tray) # 0
    /\ nextId <= MaxCaptures

\* addToTray up to its await: the flag is set and one processImage call per
\* target spec is in flight
addToTray ==
    /\ CanCapture
    /\ isAddingToTray' = TRUE
    /\ capture' = CaptureClosure
    /\ nextId' = nextId + 1
    /\ UNCHANGED <<state, modal, isExporting, savedProjects, objectURLs, gestures, lastCapture,
                   appRest>>

\* addToTray when a canvas of the fan-out gets no 2D context: that promise is
\* rejected in its executor, and the catch and finally blocks run before any
\* other event
addToTrayNoContext ==
    /\ CanCapture
    /\ lastCapture' = "failed"
    /\ nextId' = nextId + 1
    /\ UNCHANGED <<state, modal, isAddingToTray, isExporting, capture, savedProjects,
                   objectURLs, gestures, appRest>>

Pending(k) == isAddingToTray /\ k \in DOMAIN capture.variants /\ capture.variants[k].deviceType = ""

\* one render of the fan-out resolves: its variant is built, and when
\* Promise.all is fulfilled by it the item is committed and the flag cleared
RenderResolves ==
    \E k \in 1..Len(DeviceOrder) :
      /\ Pending(k)
      /\ Decodes(capture.image, objectURLs)
      /\ LET variant  == Variant(capture, capture.targetSpecs[k])
             variants == [capture.variants EXCEPT ![k] = variant]
         IN  /\ objectURLs' = objectURLs \cup {variant.renderedImageUrl}
             /\ IF PromiseAllFulfilled(variants)
                  THEN /\ state' = [state EXCEPT !.tray[capture.emptySlotIndex] =
                                                     NewItem(capture, variants)]
                       /\ isAddingToTray' = FALSE
                       /\ capture' = NoCapture
                       /\ lastCapture' = "committed"
                  ELSE /\ capture' = [capture EXCEPT !.variants = variants]
                       /\ UNCHANGED <<state, isAddingToTray, lastCapture>>
      /\ UNCHANGED <<modal, isExporting, savedProjects, nextId, gestures, appRest>>

\* the catch block without the finally block: the flag is never cleared
CaptureFails_keepsFlag ==
    /\ capture' = NoCapture
    /\ lastCapture' = "failed"
    /\ UNCHANGED <<state, modal, isAddingToTray, isExporting, savedProjects, objectURLs, nextId,
                   gestures, appRest>>

\* the catch and finally blocks.  The renders still pending run on; nothing
\* reads what they return, and the object URLs they go on to create are not
\* counted in objectURLs.
CaptureFails ==
    /\ isAddingToTray' = FALSE
    /\ capture' = NoCapture
    /\ lastCapture' = "failed"
    /\ UNCHANGED <<state, modal, isExporting, savedProjects, objectURLs, nextId, gestures, appRest>>

\* img.onerror of one render: 'Load error'
RenderLoadError ==
    /\ \E k \in 1..Len(DeviceOrder) : Pending(k)
    /\ ~Decodes(capture.image, objectURLs)
    /\ CaptureFails

\* canvas.toBlob calls back with null in one render: 'Processing failed'
RenderEncodeFails ==
    /\ \E k \in 1..Len(DeviceOrder) : Pending(k)
    /\ Decodes(capture.image, objectURLs)
    /\ CaptureFails

removeFromTrayById ==
    /\ CanGesture
    /\ \E i \in Slots :
         /\ ~IsNull(state.tray[i])
         /\ modal' = [OpenModal("confirm", "remove") EXCEPT
                        !.itemId = state.tray[i].id,
                        !.itemIndex = IndexOfId(state.tray, state.tray[i].id)]
    /\ UNCHANGED <<state, isAddingToTray, isExporting, capture, savedProjects, objectURLs,
                   nextId, lastCapture, appRest>>
    /\ gestures' = gestures - 1

\* the Remove button of the confirmation
ConfirmRemove ==
    /\ modal.isOpen /\ modal.onConfirm = "remove"
    /\ LET currentItem == state.tray[modal.itemIndex]
       IN  /\ objectURLs' = objectURLs \ URLsOf(currentItem)
           /\ state' = [state EXCEPT !.tray[modal.itemIndex] = NullItem]
    /\ modal' = NoModal
    /\ UNCHANGED <<isAddingToTray, isExporting, capture, savedProjects, nextId, gestures,
                   lastCapture, appRest>>

\* the secondary button of a modal, or "Got it" of an alert
CloseModal ==
    /\ modal.isOpen
    /\ modal' = NoModal
    /\ UNCHANGED <<state, isAddingToTray, isExporting, capture, savedProjects, objectURLs,
                   nextId, gestures, lastCapture, appRest>>

\* the confirm button of the upgrade modal
showEarlyAccessModal ==
    /\ modal.isOpen /\ modal.type = "upgrade"
    /\ modal' = OpenModal("early-access", "mailto")
    /\ UNCHANGED <<state, isAddingToTray, isExporting, capture, savedProjects, objectURLs,
                   nextId, gestures, lastCapture, appRest>>

\* a drag from an occupied slot dropped on another slot
handleTrayDrop ==
    /\ CanGesture
    /\ \E draggedSlotIdx \in Slots, targetIdx \in Slots :
         /\ ~IsNull(state.tray[draggedSlotIdx])
         /\ draggedSlotIdx # targetIdx
         /\ state' = [state EXCEPT !.tray[draggedSlotIdx] = state.tray[targetIdx],
                                   !.tray[targetIdx] = state.tray[draggedSlotIdx]]
    /\ UNCHANGED <<modal, isAddingToTray, isExporting, capture, savedProjects, objectURLs,
                   nextId, lastCapture, appRest>>
    /\ gestures' = gestures - 1

showSaveModal ==
    /\ CanGesture
    /\ OccupiedCount(state.tray) > 0
    /\ modal' = OpenModal("save", "save")
    /\ UNCHANGED <<state, isAddingToTray, isExporting, capture, savedProjects, objectURLs,
                   nextId, lastCapture, appRest>>
    /\ gestures' = gestures - 1

\* the Save button: the tray the modal's closure holds goes to the database
SaveProject ==
    /\ modal.isOpen /\ modal.onConfirm = "save"
    /\ Cardinality(savedProjects \cup {[tray |-> modal.tray]}) <= MaxProjects
    /\ savedProjects' = savedProjects \cup {[tray |-> modal.tray]}
    /\ modal' = NoModal
    /\ UNCHANGED <<state, isAddingToTray, isExporting, capture, objectURLs, nextId, gestures,
                   lastCapture, appRest>>

showLoadModal ==
    /\ CanGesture
    /\ modal' = OpenModal("load", "load")
    /\ UNCHANGED <<state, isAddingToTray, isExporting, capture, savedProjects, objectURLs,
                   nextId, lastCapture, appRest>>
    /\ gestures' = gestures - 1

\* a click on a project of the load modal
LoadProject ==
    /\ modal.isOpen /\ modal.onConfirm = "load"
    /\ \E project \in savedProjects :
         IF ~modal.isPro /\ ~isAdmin /\ OccupiedCount(project.tray) > 1
           THEN /\ modal' = OpenModal("upgrade", "early-access")
                /\ UNCHANGED <<state, objectURLs>>
           ELSE LET revoked == URLsOfTray(modal.tray)
                    known   == objectURLs \cup revoked \cup URLsOfTray(state.tray)
                                 \cup {img.ref : img \in {i \in {state.image, capture.image} :
                                                            i.kind = "url"}}
                    rehydratedTray == Rehydrate(project.tray, FreshGen(known))
                IN  /\ objectURLs' = (objectURLs \ revoked) \cup URLsOfTray(rehydratedTray)
                    /\ state' = [state EXCEPT !.image = NullImage, !.tray = rehydratedTray]
                    /\ modal' = NoModal
    /\ UNCHANGED <<isAddingToTray, isExporting, capture, savedProjects, nextId, gestures,
                   lastCapture, appRest>>

\* the delete button of a project of the load modal
deleteProject ==
    /\ modal.isOpen /\ modal.type = "load"
    /\ \E project \in savedProjects : savedProjects' = savedProjects \ {project}
    /\ UNCHANGED <<state, modal, isAddingToTray, isExporting, capture, objectURLs, nextId,
                   gestures, lastCapture, appRest>>

\* the files handleBatchExport puts in the ZIP of a platform
ZipEntries(tray, targetPlatform) ==
    {[folder |-> IF tray[i].exportMode = "RECTANGLE" THEN "full_resolution" ELSE "mockups",
      filename |-> tray[i].variants[k].filename] :
        <<i, k>> \in {ik \in (DOMAIN tray) \X (1..Len(DeviceOrder)) :
                         /\ ~IsNull(tray[ik[1]])
                         /\ tray[ik[1]].platform = targetPlatform
                         /\ ik[2] \in DOMAIN tray[ik[1]].variants}}

handleBatchExport ==
    /\ CanGesture
    /\ isExporting = ""
    /\ \E targetPlatform \in Platforms :
         /\ ZipEntries(state.tray, targetPlatform) # {}
         /\ isExporting' = targetPlatform
    /\ UNCHANGED <<state, modal, isAddingToTray, capture, savedProjects, objectURLs, nextId,
                   lastCapture, appRest>>
    /\ gestures' = gestures - 1

\* zip.generateAsync settles; the ZIP's own object URL is created and revoked
BatchExportDone ==
    /\ isExporting # ""
    /\ isExporting' = ""
    /\ UNCHANGED <<state, modal, isAddingToTray, capture, savedProjects, objectURLs, nextId,
                   gestures, lastCapture, appRest>>

Next ==
    \/ SelectDevice
    \/ SetFitMode
    \/ SetExportMode
    \/ ApplyCrop
    \/ applyAutoShine
    \/ AdjustmentSlider
    \/ SetFrameColor
    \/ TogglePro
    \/ processFile
    \/ DiscardMaster
    \/ ConfirmDiscard
    \/ editCopyFromTray
    \/ addToTrayUpgrade
    \/ addToTray
    \/ addToTrayNoContext
    \/ RenderResolves
    \/ RenderLoadError
    \/ RenderEncodeFails
    \/ removeFromTrayById
    \/ ConfirmRemove
    \/ CloseModal
    \/ showEarlyAccessModal
    \/ handleTrayDrop
    \/ showSaveModal
    \/ SaveProject
    \/ showLoadModal
    \/ LoadProject
    \/ deleteProject
    \/ handleBatchExport
    \/ BatchExportDone

Spec == Init /\ [][Next]_vars

(***************************************************************************)
(* The life cycle of the tray (SpecTray): uploads, captures, discards,     *)
(* revisions, removals, drags, saved projects and exports, without the     *)
(* editor's settings, over longer behaviours                               *)
(***************************************************************************)
TrayInit ==
    /\ AppStart(MaxTrayGestures)
    /\ RenderAtRest
    /\ NormAtRest
    /\ SharpAtRest
    /\ DetectAtRest
    /\ ScanAtRest
    /\ CropAtRest

TrayNext ==
    \/ processFile
    \/ DiscardMaster
    \/ ConfirmDiscard
    \/ editCopyFromTray
    \/ addToTray
    \/ addToTrayNoContext
    \/ RenderResolves
    \/ RenderLoadError
    \/ RenderEncodeFails
    \/ removeFromTrayById
    \/ ConfirmRemove
    \/ CloseModal
    \/ handleTrayDrop
    \/ showSaveModal
    \/ SaveProject
    \/ showLoadModal
    \/ LoadProject
    \/ handleBatchExport
    \/ BatchExportDone

SpecTray == TrayInit /\ [][TrayNext]_vars

(***************************************************************************)
(* The export tray and the capture fan-out                                 *)
(***************************************************************************)
\* what the tray promises to keep of an item: its identity, platform, export
\* mode and index, and the blob and file name of each variant
Frozen(item) ==
    [id |-> item.id, platform |-> item.platform, exportMode |-> item.exportMode,
     index |-> item.index,
     variants |-> [k \in DOMAIN item.variants |->
                     [deviceType   |-> item.variants[k].deviceType,
                      renderedBlob |-> item.variants[k].renderedBlob,
                      filename     |-> item.variants[k].filename]]]

\* this step is the Remove button of the confirmation opened for this item
ConfirmedRemovalOf(item) ==
    /\ modal.isOpen /\ modal.onConfirm = "remove" /\ modal.itemId = item.id
    /\ ~modal'.isOpen

\* this step is the click on a project of the load modal
ProjectLoadStep == modal.isOpen /\ modal.onConfirm = "load" /\ ~modal'.isOpen

\* C2: an item of the tray stays in the tray, with the same variants (blob and
\* file name), platform, export mode and index, in every step that is neither
\* the confirmed removal of that item nor a project load; a step may move it
\* to another slot.
C2_TrayItemsAreImmutable ==
    [][\A i \in Slots :
          ~IsNull(state.tray[i]) =>
             \/ \E j \in Slots : Frozen(state'.tray[j]) = Frozen(state.tray[i])
             \/ ConfirmedRemovalOf(state.tray[i])
             \/ ProjectLoadStep]_vars

\* this step belongs to an addToTray call: its start, one of its renders
\* settling, or its end
CaptureStep == <<isAddingToTray, capture, nextId, lastCapture>>' #
               <<isAddingToTray, capture, nextId, lastCapture>>

\* this step is the end of an addToTray call whose Promise.all was fulfilled
CommitStep == isAddingToTray /\ ~isAddingToTray' /\ lastCapture' = "committed"

\* this step is the end of an addToTray call one of whose renders rejected
FailureStep == ~isAddingToTray' /\ lastCapture' = "failed"
                 /\ (isAddingToTray \/ nextId' # nextId)

NumSpecs(platform) == Cardinality({d \in DeviceTypes : DEVICE_SPECS[d].platform = platform})

\* the item holds a rendered variant for every device spec of its platform
HasEveryVariant(item) ==
    /\ Len(item.variants) = NumSpecs(item.platform)
    /\ \A k \in DOMAIN item.variants : item.variants[k].renderedBlob.type = "image/png"

\* C3: a capture one of whose renders rejects commits nothing: no step of an
\* addToTray call other than the commit of a fulfilled fan-out changes the
\* tray, so the failing step leaves the tray as it is; and no tray item ever
\* holds fewer variants than its platform has device specs.
C3_FailedCaptureCommitsNothing ==
    /\ [][(CaptureStep /\ ~CommitStep) => state'.tray = state.tray]_vars
    /\ [](\A i \in Slots : ~IsNull(state.tray[i]) => HasEveryVariant(state.tray[i]))

\* a fan-out was rejected after some of its renders had resolved, next to an
\* item committed earlier
C3_Witness ==
    /\ lastCapture = "failed" /\ ~isAddingToTray
    /\ \E u \in objectURLs : u[1] = nextId - 1
    /\ OccupiedCount(state.tray) = 1
    /\ \A i \in Slots : state.tray[i].id # nextId - 1

\* the device specs of a platform in the order of the registry
RegistryOrder(platform) ==
    IF platform = "APPLE" THEN <<"IPHONE", "IPHONE_61", "IPAD">>
    ELSE <<"PHONE", "TABLET_7", "TABLET_10", "CHROMEBOOK">>

\* C4: the commit of a capture for platform P changes one slot, which then
\* holds the one item of that capture with one rendered variant per device
\* spec of P (3 for Apple, 4 for Android) in registry order, whatever order
\* the renders resolved in; and while a render of the capture is pending the
\* tray holds no item of it.
C4_OneItemOneVariantPerSpec ==
    /\ [][CommitStep =>
            LET changed == {j \in Slots : state'.tray[j] # state.tray[j]}
            IN  /\ Cardinality(changed) = 1
                /\ \A j \in Slots : state'.tray[j].id = capture.id <=> j \in changed
                /\ \A j \in changed :
                     LET item == state'.tray[j]
                     IN  /\ item.platform = capture.targetPlatform
                         /\ item.platform = DEVICE_SPECS[item.variants[1].deviceType].platform
                         /\ [k \in DOMAIN item.variants |-> item.variants[k].deviceType]
                              = RegistryOrder(item.platform)
                         /\ Len(item.variants) = IF item.platform = "APPLE" THEN 3 ELSE 4
                         /\ HasEveryVariant(item)]_vars
    /\ [](isAddingToTray => \A j \in Slots : state.tray[j].id # capture.id)

\* an Apple capture and an Android capture are both committed
C4_Witness ==
    /\ lastCapture = "committed"
    /\ \E i, j \in Slots : /\ state.tray[i].platform = "APPLE"
                           /\ Len(state.tray[i].variants) = 3
                           /\ state.tray[j].platform = "ANDROID"
                           /\ Len(state.tray[j].variants) = 4

\* every blob the page holds, with the capture that rendered it: in the tray,
\* in the fan-out in flight and in the saved projects
HeldBlobs ==
    LET ofTray(tray) == {[id |-> tray[i].id, blob |-> tray[i].variants[k].renderedBlob] :
                           <<i, k>> \in {ik \in (DOMAIN tray) \X (1..Len(DeviceOrder)) :
                                            ik[2] \in DOMAIN tray[ik[1]].variants}}
        inFlight == {[id |-> capture.id, blob |-> capture.variants[k].renderedBlob] :
                       k \in {n \in DOMAIN capture.variants : capture.variants[n].deviceType # ""}}
    IN  ofTray(state.tray) \cup inFlight \cup UNION {ofTray(p.tray) : p \in savedProjects}

C17_LeavingVariantsAreRevoked ==
    [][\A u \in URLsOfTray(state.tray) \ URLsOfTray(state'.tray) : u \notin objectURLs']_vars

\* C24: whenever the editor holds a master image that image is still
\* loadable: after any sequence of capture, discard, edit-revision-from-tray,
\* tray removal and project load, state.image never refers to a preview URL
\* that has been revoked.
C24_MasterStaysLoadable ==
    state.image.kind = "url" => state.image.ref \in objectURLs

\* the (platform, export mode) bucket of the item in slot i
Bucket(i) == <<state.tray[i].platform, state.tray[i].exportMode>>

\* the files a platform kit is built from: one per variant of each item of
\* the platform
KitFiles(targetPlatform) ==
    {ik \in Slots \X (1..Len(DeviceOrder)) :
        /\ ~IsNull(state.tray[ik[1]])
        /\ state.tray[ik[1]].platform = targetPlatform
        /\ ik[2] \in DOMAIN state.tray[ik[1]].variants}

\* C26: every capture gets index = 1 + the largest index among the tray
\* items of its platform and export mode, so in every reachable state the
\* items of one (platform, mode) bucket have pairwise distinct indices and
\* the files of an exported platform kit have pairwise distinct names.
C26_BucketIndicesAreDistinct ==
    /\ \A i, j \in Slots :
         (i # j /\ ~IsNull(state.tray[i]) /\ ~IsNull(state.tray[j]) /\ Bucket(i) = Bucket(j))
            => state.tray[i].index # state.tray[j].index
    /\ \A targetPlatform \in Platforms :
         Cardinality(ZipEntries(state.tray, targetPlatform)) = Cardinality(KitFiles(targetPlatform))

\* no capture and no export is in flight
Quiescent == ~isAddingToTray /\ isExporting = ""

\* C29: when a capture fan-out fails, every preview URL its renders created
\* is revoked: in every quiescent state each preview URL that has been
\* created is held by a tray item or has been released.
C29_NoPreviewURLOutlivesItsItem ==
    Quiescent => objectURLs \subseteq URLsOfTray(state.tray)

\* an event of a render in flight: its image loads or fails to load, and
\* canvas.toBlob calls back
RenderSettles == RenderResolves \/ RenderLoadError \/ RenderEncodeFails

\* uploads and captures alone, with the gestures that lift the tier limit
\* and close a modal
CaptureInit ==
    /\ AppStart(MaxCaptureGestures)
    /\ RenderAtRest
    /\ NormAtRest
    /\ SharpAtRest
    /\ DetectAtRest
    /\ ScanAtRest
    /\ CropAtRest

CaptureNext ==
    \/ TogglePro
    \/ processFile
    \/ addToTrayUpgrade
    \/ addToTray
    \/ addToTrayNoContext
    \/ RenderResolves
    \/ RenderLoadError
    \/ RenderEncodeFails
    \/ CloseModal

\* some render of the fan-out has not settled: an event of it is due
RenderPending == \E k \in 1..Len(DeviceOrder) : Pending(k)

\* The browser delivers the load, error and toBlob events of every render
\* that is in flight: weak fairness of RenderSettles, which is enabled
\* exactly when a render is pending, with that condition written out.
RenderEventsArrive == []<>(~RenderPending) \/ []<><<RenderSettles>>_vars

SpecCapture == CaptureInit /\ [][CaptureNext]_vars /\ RenderEventsArrive

====
